---------------------------- MODULE Spec2Model ----------------------------
(***************************************************************************)
(* Verification model of hush_fm (Silent Disco).                           *)
(*                                                                         *)
(* The repository holds two coordination cores:                            *)
(*   - src/server/api.py + src/server/state.py: the HTTP API over the      *)
(*     module-level dictionaries  rooms, clients, room_update_subscribers; *)
(*   - src/main.py: class SilentDiscoServer (users, rooms, clients, peers) *)
(*     and class PausableAudioTrack.                                       *)
(* Each is modelled as its own state machine over its own variables; the   *)
(* specifications SpecApi, SpecIdentity, SpecPresence and SpecFanout run   *)
(* the first, SpecMain, SpecMembers, SpecRace, SpecSignal, SpecPlayback    *)
(* and SpecControl the second, SpecTrack one PausableAudioTrack on its     *)
(* own, and SpecAdmission either of the two servers.                       *)
(***************************************************************************)
EXTENDS Integers, Sequences, FiniteSets, TLC

(***************************************************************************)
(* Bounds of the model.                                                    *)
(***************************************************************************)
NumClients == 2      \* client ids the id generator can draw
MaxTime == 40        \* the clock stops advancing here

None == "None"       \* Python None

ClientIds == {"client_" \o ToString(i) : i \in 1..NumClients}
TwoClients == {"client_1", "client_2"}
RoomIds == {"room_1", "room_2"}
OneRoom == {"room_1"}
Names == {"Funky", "Groovy"}
OneName == {"Funky"}
RoomNames == {"My Disco"}
RoleInputs == {"dj", "listener", None}

(***************************************************************************)
(* State of src/server/state.py, plus the wall clock read by time.time()   *)
(* and the last request/response pair of the HTTP API.                     *)
(***************************************************************************)
VARIABLES
    rooms,                   \* room_id -> [name, dj_client, listeners, last_seen_dj]
    clients,                 \* client_id -> [name, room_id, role, last_seen]
    room_update_subscribers, \* set of directory WebSockets
    ws_inbox,                \* directory WebSocket -> last room list it was sent
    now,                     \* time.time()
    last,                    \* the last request of the HTTP API and its response
    bcast,                   \* the broadcast_room_update call that is suspended in a
                             \* send, if any: [active, cur, todo, size, dead, data,
                             \* overtaken]; the frame of the suspended send was
                             \* written to cur when send_str was called, overtaken
                             \* tells that another list was written to cur since
    hist                     \* history: room_id -> [created, hb, refresh, offline], the
                             \* times of its creation, of its last heartbeat with
                             \* role=dj (0: none), of the last event that refreshed
                             \* last_seen_dj, and whether an offline report came since

apiVars == <<rooms, clients, room_update_subscribers, ws_inbox, bcast, now, last, hist>>

(***************************************************************************)
(* State of SilentDiscoServer (src/main.py).                               *)
(***************************************************************************)
VARIABLES
    srv_users,    \* self.users: fingerprint -> [nickname, room_id]
    srv_rooms,    \* self.rooms: room_id -> [name, dj_fingerprint, connected_clients,
                  \* current_audio, is_playing, audio_track]
    srv_clients,  \* self.clients: client_id -> [user_fingerprint, role, room_id]
    srv_peers,    \* self.peers: client_id -> peer connection
    pcs,          \* the RTCPeerConnection objects, in creation order: [client, dc,
                  \* ice, track]: the state of the 'sync' channel, the candidates
                  \* added and the track of the audio sender
    tasks,        \* the handlers suspended in  await peer.close(), each with the
                  \* members that had an open data channel when it was called
    joined,       \* history: room_id -> [since, latest]: the client ids that joined
                  \* it as listener and have not left it since, and those of them
                  \* whose latest join was as listener
    mlast         \* the last step of a handler of SilentDiscoServer: its request and
                  \* its response, or "suspended" when it stopped in an await

mainVars == <<srv_users, srv_rooms, srv_clients, srv_peers, pcs, tasks, joined, mlast>>

(***************************************************************************)
(* Signalling and playback of SilentDiscoServer (src/main.py).             *)
(***************************************************************************)
VARIABLES
    ice_sent,     \* history: client_id -> the candidates posted for it, in order
    tracks,       \* the PausableAudioTrack objects, in creation order
    pulls         \* history: for each track, the outcome of each recv() call on
                  \* it, in order: the frame returned or the error raised

playVars == <<ice_sent, tracks, pulls>>

vars == <<apiVars, mainVars, playVars>>

STALE_WINDOW == 35

(* an empty Python dict *)
EmptyDict == [x \in {} |-> None]

DictDel(d, k) == [x \in (DOMAIN d) \ {k} |-> d[x]]

DictSet(d, k, v) == [x \in (DOMAIN d) \cup {k} |-> IF x = k THEN v ELSE d[x]]

(***************************************************************************)
(* get_rooms_data: the room list, one summary per room.                    *)
(***************************************************************************)
(* the staleness test without the truth test of last_seen_dj *)
dj_online_unguarded(room, t) == (t - room.last_seen_dj) < STALE_WINDOW

dj_online(room, t) ==
    room.last_seen_dj # 0 /\ (t - room.last_seen_dj) < STALE_WINDOW

get_rooms_data(rms, cls, t) ==
    [r \in DOMAIN rms |->
        [name |-> rms[r].name,
         dj_client |-> rms[r].dj_client,
         dj_name |-> IF rms[r].dj_client \in DOMAIN cls
                     THEN cls[rms[r].dj_client].name ELSE None,
         listener_count |-> Cardinality(rms[r].listeners),
         dj_online |-> dj_online(rms[r], t)]]

(***************************************************************************)
(* broadcast_room_update on the state (rms, cls): every subscriber whose   *)
(* send does not raise gets the room list, the others (dead) are removed.  *)
(***************************************************************************)
NoBroadcast ==
    [active |-> FALSE, cur |-> None, todo |-> {}, size |-> 0, dead |-> {},
     data |-> EmptyDict, overtaken |-> FALSE]

(* the broadcast with no subscriber connecting or disconnecting while it runs *)
broadcast_uninterrupted(rms, cls, dead) ==
    /\ room_update_subscribers' = room_update_subscribers \ dead
    /\ ws_inbox' = [w \in room_update_subscribers \ dead |-> get_rooms_data(rms, cls, now)]
    /\ bcast' = NoBroadcast

(***************************************************************************)
(* broadcast_room_update.  It returns at once when there is no subscriber. *)
(* When yields is false no send suspends and the loop runs through.  When  *)
(* yields is true the loop picks a first socket of the set and the caller  *)
(* is suspended in  await ws.send_str(message)  on it.                     *)
(***************************************************************************)
broadcast_room_update(rms, cls, dead, yields) ==
    IF room_update_subscribers = {} \/ ~yields
    THEN broadcast_uninterrupted(rms, cls, dead)
    ELSE /\ \E ws \in room_update_subscribers :
              bcast' = [active |-> TRUE, cur |-> ws,
                        todo |-> room_update_subscribers \ {ws},
                        size |-> Cardinality(room_update_subscribers),
                        dead |-> {}, data |-> get_rooms_data(rms, cls, now),
                        overtaken |-> FALSE]
         /\ UNCHANGED <<room_update_subscribers, ws_inbox>>

(***************************************************************************)
(* The suspended send completes (it raises when fails is true) and the     *)
(* loop asks the set iterator for the next socket.  The iterator raises    *)
(* RuntimeError when the size of the set differs from its size at the      *)
(* start of the loop; nothing catches it, and the request of the caller is *)
(* answered 500.  A socket that was discarded is not visited; a socket     *)
(* added meanwhile is taken as not visited.                                *)
(***************************************************************************)
broadcast_resume(fails) ==
    LET dead == IF fails THEN bcast.dead \cup {bcast.cur} ELSE bcast.dead
        inbox == IF fails \/ bcast.overtaken THEN ws_inbox
                 ELSE DictSet(ws_inbox, bcast.cur, bcast.data)
        todo == bcast.todo \cap room_update_subscribers
    IN /\ bcast.active
       /\ ws_inbox' = inbox
       /\ IF Cardinality(room_update_subscribers) # bcast.size
          THEN /\ last' = [last EXCEPT !.error = "RuntimeError"]
               /\ bcast' = NoBroadcast
               /\ UNCHANGED room_update_subscribers
          ELSE IF todo = {}
          THEN /\ room_update_subscribers' = room_update_subscribers \ dead
               /\ bcast' = NoBroadcast
               /\ UNCHANGED last
          ELSE /\ \E ws \in todo :
                    bcast' = [bcast EXCEPT !.cur = ws, !.todo = todo \ {ws},
                                           !.dead = dead, !.overtaken = FALSE]
               /\ UNCHANGED <<room_update_subscribers, last>>
       /\ UNCHANGED <<rooms, clients, now>>

(***************************************************************************)
(* ws_room_updates: a directory WebSocket is added to the subscribers and  *)
(* sent the room list; when its connection ends it is discarded.           *)
(***************************************************************************)
ws_connect(ws) ==
    /\ ws \notin room_update_subscribers
    /\ room_update_subscribers' = room_update_subscribers \cup {ws}
    /\ ws_inbox' = DictSet(ws_inbox, ws, get_rooms_data(rooms, clients, now))
    /\ UNCHANGED <<rooms, clients, now, last, bcast>>

ws_disconnect(ws) ==
    /\ ws \in room_update_subscribers
    /\ room_update_subscribers' = room_update_subscribers \ {ws}
    /\ ws_inbox' = DictDel(ws_inbox, ws)
    /\ UNCHANGED <<rooms, clients, now, last, bcast>>

Response(op, client, room, role, error, name, existing) ==
    [op |-> op, client |-> client, room |-> room, role |-> role,
     error |-> error, name |-> name, existing |-> existing, given |-> None]

(* the response of api_identify to a request that gave client_id = reuse_id *)
IdentifyResponse(reuse_id, client_id, name) ==
    [Response("identify", client_id, None, None, "ok", name, FALSE) EXCEPT !.given = reuse_id]

(***************************************************************************)
(* api_identify(client_id = reuse_id, name = name_in); new_id and new_name *)
(* are what generate_client_id() and generate_client_name() return.        *)
(***************************************************************************)
(* generate_client_id(): a random id; nothing makes it differ from the ids in use *)
generate_client_id(ids) == ids

(* variant of api_identify that stores the requested name when it reuses an id *)
api_identify_renames(reuse_id, name_in, new_id, new_name) ==
    /\ IF reuse_id # None /\ reuse_id \in DOMAIN clients
       THEN LET name == IF name_in # None THEN name_in ELSE clients[reuse_id].name
            IN /\ clients' = [clients EXCEPT ![reuse_id].last_seen = now,
                                             ![reuse_id].name = name]
               /\ last' = IdentifyResponse(reuse_id, reuse_id, name)
       ELSE LET name == IF name_in # None THEN name_in ELSE new_name
            IN /\ clients' = DictSet(clients, new_id,
                                [name |-> name, room_id |-> None,
                                 role |-> None, last_seen |-> now])
               /\ last' = IdentifyResponse(reuse_id, new_id, name)
    /\ UNCHANGED <<rooms, room_update_subscribers, ws_inbox, bcast, now>>

api_identify(reuse_id, name_in, new_id, new_name) ==
    /\ IF reuse_id # None /\ reuse_id \in DOMAIN clients
       THEN /\ clients' = [clients EXCEPT ![reuse_id].last_seen = now]
            /\ last' = IdentifyResponse(reuse_id, reuse_id, clients[reuse_id].name)
       ELSE LET name == IF name_in # None THEN name_in ELSE new_name
            IN /\ clients' = DictSet(clients, new_id,
                                [name |-> name, room_id |-> None,
                                 role |-> None, last_seen |-> now])
               /\ last' = IdentifyResponse(reuse_id, new_id, name)
    /\ UNCHANGED <<rooms, room_update_subscribers, ws_inbox, bcast, now>>

(***************************************************************************)
(* api_room_create(client_id, name); new_room is generate_room_id().       *)
(***************************************************************************)
(* generate_room_id(): a random id of the universe ids; nothing makes it differ
   from the ids in use *)
generate_room_id(ids) == ids

OwnedRooms(client_id) == {r \in DOMAIN rooms : rooms[r].dj_client = client_id}

api_room_create(client_id, room_name, new_room, dead, yields) ==
    IF client_id \notin DOMAIN clients
    THEN /\ last' = Response("create", client_id, None, None, "unknown client", None, FALSE)
         /\ UNCHANGED <<rooms, clients, room_update_subscribers, ws_inbox, bcast, now>>
    ELSE IF OwnedRooms(client_id) # {}
    THEN \E room_id \in OwnedRooms(client_id) :
         /\ clients' = [clients EXCEPT ![client_id].room_id = room_id,
                                       ![client_id].role = "dj"]
         /\ last' = Response("create", client_id, room_id, None, "ok", None, TRUE)
         /\ UNCHANGED <<rooms, room_update_subscribers, ws_inbox, bcast, now>>
    ELSE /\ rooms' = DictSet(rooms, new_room,
                        [name |-> room_name, dj_client |-> client_id,
                         listeners |-> {}, last_seen_dj |-> now])
         /\ clients' = [clients EXCEPT ![client_id].room_id = new_room,
                                       ![client_id].role = "dj"]
         /\ broadcast_room_update(rooms', clients', dead, yields)
         /\ last' = Response("create", client_id, new_room, None, "ok", None, FALSE)
         /\ UNCHANGED now

(***************************************************************************)
(* api_room_join(room_id, client_id, role)                                 *)
(***************************************************************************)
(* the conflict check left out *)
dj_conflict_skipped(room, client_id) == FALSE

(* the conflict check without the exception for the DJ itself *)
dj_conflict_strict(room, client_id) == room.dj_client # None

(* existing_dj not in (None, client_id) *)
dj_conflict(room, client_id) == room.dj_client \notin {None, client_id}

api_room_join(room_id, client_id, role, dead, yields) ==
    IF client_id \notin DOMAIN clients
    THEN /\ last' = Response("join", client_id, room_id, role, "unknown client", None, FALSE)
         /\ UNCHANGED <<rooms, clients, room_update_subscribers, ws_inbox, bcast, now>>
    ELSE IF room_id \notin DOMAIN rooms
    THEN /\ last' = Response("join", client_id, room_id, role, "unknown room", None, FALSE)
         /\ UNCHANGED <<rooms, clients, room_update_subscribers, ws_inbox, bcast, now>>
    ELSE IF role = "dj" /\ dj_conflict(rooms[room_id], client_id)
    THEN /\ last' = Response("join", client_id, room_id, role, "room already has a DJ",
                             None, FALSE)
         /\ UNCHANGED <<rooms, clients, room_update_subscribers, ws_inbox, bcast, now>>
    ELSE /\ rooms' = IF role = "dj"
                     THEN [rooms EXCEPT ![room_id].dj_client = client_id,
                                        ![room_id].last_seen_dj = now]
                     ELSE [rooms EXCEPT ![room_id].listeners = @ \cup {client_id}]
         /\ clients' = [clients EXCEPT ![client_id].room_id = room_id,
                                       ![client_id].role = role,
                                       ![client_id].last_seen = now]
         /\ broadcast_room_update(rooms', clients', dead, yields)
         /\ last' = Response("join", client_id, room_id, role, "ok",
                             rooms[room_id].name, FALSE)
         /\ UNCHANGED now

(***************************************************************************)
(* api_room_join with role listener, handled while the broadcast of an     *)
(* earlier request is suspended in a send: the handler adds the listener   *)
(* and its own broadcast_room_update runs through, no send suspending.     *)
(* The list it writes to the socket the earlier broadcast is suspended on  *)
(* comes after the frame of that send.                                     *)
(***************************************************************************)
join_while_broadcasting(room_id, client_id) ==
    /\ bcast.active
    /\ client_id \in DOMAIN clients
    /\ room_id \in DOMAIN rooms
    /\ rooms' = [rooms EXCEPT ![room_id].listeners = @ \cup {client_id}]
    /\ clients' = [clients EXCEPT ![client_id].room_id = room_id,
                                  ![client_id].role = "listener",
                                  ![client_id].last_seen = now]
    /\ ws_inbox' = [w \in room_update_subscribers |-> get_rooms_data(rooms', clients', now)]
    /\ bcast' = [bcast EXCEPT !.overtaken = TRUE]
    /\ UNCHANGED <<room_update_subscribers, now, last>>

(***************************************************************************)
(* api_room_close(room_id, client_id)                                      *)
(***************************************************************************)
(* variant of api_room_close that deletes the room before it checks who asks *)
api_room_close_deletes_first(room_id, client_id, dead, yields) ==
    IF room_id \notin DOMAIN rooms
    THEN /\ last' = Response("close", client_id, room_id, None, "unknown room", None, FALSE)
         /\ UNCHANGED <<rooms, clients, room_update_subscribers, ws_inbox, bcast, now>>
    ELSE IF client_id \notin DOMAIN clients
    THEN /\ last' = Response("close", client_id, room_id, None, "unknown client", None, FALSE)
         /\ UNCHANGED <<rooms, clients, room_update_subscribers, ws_inbox, bcast, now>>
    ELSE /\ rooms' = DictDel(rooms, room_id)
         /\ broadcast_room_update(rooms', clients, dead, yields)
         /\ last' = Response("close", client_id, room_id, None,
                             IF rooms[room_id].dj_client # client_id
                             THEN "only DJ can close room" ELSE "ok", None, FALSE)
         /\ UNCHANGED <<clients, now>>

api_room_close(room_id, client_id, dead, yields) ==
    IF room_id \notin DOMAIN rooms
    THEN /\ last' = Response("close", client_id, room_id, None, "unknown room", None, FALSE)
         /\ UNCHANGED <<rooms, clients, room_update_subscribers, ws_inbox, bcast, now>>
    ELSE IF client_id \notin DOMAIN clients
    THEN /\ last' = Response("close", client_id, room_id, None, "unknown client", None, FALSE)
         /\ UNCHANGED <<rooms, clients, room_update_subscribers, ws_inbox, bcast, now>>
    ELSE IF rooms[room_id].dj_client # client_id
    THEN /\ last' = Response("close", client_id, room_id, None, "only DJ can close room",
                             None, FALSE)
         /\ UNCHANGED <<rooms, clients, room_update_subscribers, ws_inbox, bcast, now>>
    ELSE /\ rooms' = DictDel(rooms, room_id)
         /\ broadcast_room_update(rooms', clients, dead, yields)
         /\ last' = Response("close", client_id, room_id, None, "ok", None, FALSE)
         /\ UNCHANGED <<clients, now>>

(***************************************************************************)
(* api_presence(client_id, room_id, role): the heartbeat.                  *)
(***************************************************************************)
api_presence(client_id, room_id, role) ==
    /\ clients' = IF client_id \in DOMAIN clients
                  THEN [clients EXCEPT ![client_id].last_seen = now]
                  ELSE clients
    /\ rooms' = IF room_id \in DOMAIN rooms /\ role = "dj"
                THEN [rooms EXCEPT ![room_id].last_seen_dj = now]
                ELSE rooms
    /\ last' = Response("presence", client_id, room_id, role, "ok", None, FALSE)
    /\ UNCHANGED <<room_update_subscribers, ws_inbox, bcast, now>>

(***************************************************************************)
(* api_dj_presence(room_id, dj_client_id, is_online)                       *)
(***************************************************************************)
api_dj_presence(room_id, dj_client_id, is_online, dead, yields) ==
    IF room_id \notin DOMAIN rooms
    THEN /\ last' = Response("dj_presence", dj_client_id, room_id, None, "unknown room",
                             None, is_online)
         /\ UNCHANGED <<rooms, clients, room_update_subscribers, ws_inbox, bcast, now>>
    ELSE /\ rooms' = [rooms EXCEPT ![room_id].last_seen_dj = IF is_online THEN now ELSE 0]
         /\ broadcast_room_update(rooms', clients, dead, yields)
         /\ last' = Response("dj_presence", dj_client_id, room_id, None, "ok", None, is_online)
         /\ UNCHANGED <<clients, now>>

(***************************************************************************)
(* The wall clock advances between requests.                               *)
(***************************************************************************)
TickSteps == {17, 18}

Tick(d) ==
    /\ now + d <= MaxTime
    /\ now' = now + d
    /\ UNCHANGED <<rooms, clients, room_update_subscribers, ws_inbox, bcast, last, hist>>

NoResponse == Response("none", None, None, None, "ok", None, FALSE)

InitApi ==
    /\ rooms = EmptyDict
    /\ clients = EmptyDict
    /\ room_update_subscribers = {}
    /\ ws_inbox = EmptyDict
    /\ now = 1
    /\ last = NoResponse
    /\ hist = EmptyDict
    /\ bcast = NoBroadcast

(***************************************************************************)
(* One request is answered at a time: a handler runs when no response is   *)
(* pending, Respond hands the pending response to the caller.              *)
(***************************************************************************)
Idle == last.op = "none"

Respond ==
    /\ ~Idle
    /\ ~bcast.active
    /\ last' = NoResponse
    /\ UNCHANGED <<rooms, clients, room_update_subscribers, ws_inbox, bcast, now, hist>>
    /\ UNCHANGED <<mainVars, playVars>>

(* the history of a room after the event that refreshes its last_seen_dj at time t *)
Refreshed(h, t) == [h EXCEPT !.refresh = t, !.offline = FALSE]

Identify(C, N) ==
    /\ Idle
    /\ UNCHANGED <<hist, mainVars, playVars>>
    /\ \/ \E reuse_id \in DOMAIN clients, name_in \in N \cup {None} :
              api_identify(reuse_id, name_in, None, None)
       \/ \E reuse_id \in (C \ DOMAIN clients) \cup {None},
             new_id \in generate_client_id(C), name_in \in N :
              api_identify(reuse_id, name_in, new_id, None)
       \/ \E reuse_id \in (C \ DOMAIN clients) \cup {None},
             new_id \in generate_client_id(C), new_name \in N :
              api_identify(reuse_id, None, new_id, new_name)

RoomCreate(C, R, Y) ==
    /\ Idle
    /\ UNCHANGED <<mainVars, playVars>>
    /\ \E client_id \in C, room_name \in RoomNames, new_room \in generate_room_id(R),
          dead \in SUBSET room_update_subscribers, yields \in Y :
           /\ api_room_create(client_id, room_name, new_room, dead, yields)
           /\ hist' = IF last'.error = "ok" /\ ~last'.existing
                      THEN DictSet(hist, new_room, [created |-> now, hb |-> 0,
                                                    refresh |-> now, offline |-> FALSE])
                      ELSE hist

RoomJoin(C, R, Y) ==
    /\ Idle
    /\ UNCHANGED <<mainVars, playVars>>
    /\ \E room_id \in R, client_id \in C, role \in RoleInputs,
          dead \in SUBSET room_update_subscribers, yields \in Y :
           /\ api_room_join(room_id, client_id, role, dead, yields)
           /\ hist' = IF last'.error = "ok" /\ role = "dj"
                      THEN [hist EXCEPT ![room_id] = Refreshed(@, now)]
                      ELSE hist

RoomClose(C, R, Y) ==
    /\ Idle
    /\ UNCHANGED <<mainVars, playVars>>
    /\ \E room_id \in R, client_id \in C,
          dead \in SUBSET room_update_subscribers, yields \in Y :
           /\ api_room_close(room_id, client_id, dead, yields)
           /\ hist' = IF last'.error = "ok" THEN DictDel(hist, room_id) ELSE hist

Presence(C, R) ==
    /\ Idle
    /\ UNCHANGED <<mainVars, playVars>>
    /\ \E client_id \in C, room_id \in R \cup {None}, role \in RoleInputs :
           /\ api_presence(client_id, room_id, role)
           /\ hist' = IF room_id \in DOMAIN hist /\ role = "dj"
                      THEN [hist EXCEPT ![room_id] = [Refreshed(@, now) EXCEPT !.hb = now]]
                      ELSE hist

DjPresence(C, R, Y) ==
    /\ Idle
    /\ UNCHANGED <<mainVars, playVars>>
    /\ \E room_id \in R, dj_client_id \in C, is_online \in BOOLEAN,
          dead \in SUBSET room_update_subscribers, yields \in Y :
           /\ api_dj_presence(room_id, dj_client_id, is_online, dead, yields)
           /\ hist' = IF room_id \notin DOMAIN hist THEN hist
                      ELSE IF is_online THEN [hist EXCEPT ![room_id] = Refreshed(@, now)]
                      ELSE [hist EXCEPT ![room_id].offline = TRUE]

Clock ==
    /\ Idle
    /\ UNCHANGED <<hist, mainVars, playVars>>
    /\ \E d \in TickSteps : Tick(d)

(***************************************************************************)
(*                     src/main.py: SilentDiscoServer                      *)
(***************************************************************************)
MainPeers == 1        \* RTCPeerConnection objects created in a run of SpecMain
MainTasks == 1        \* handlers suspended in an await at a time in SpecMain
MaxPeers == 2         \* the same for SpecRace
MaxTasks == 2

Fingerprints == {"fp_1", "fp_2"}
SocketIds == {"sock_1", "sock_2"}
OneSocket == {"sock_1"}
MainRoomNames == {"", "Test"}

MAX_CAPACITY == 50

(* Client.data_channel = None *)
NoChannel == 0

(* Room.audio_track = None, and a sender without a track *)
NoTrack == 0

MResponse(op, fp, client, room, error, role, event, attached, sent) ==
    [op |-> op, fp |-> fp, client |-> client, room |-> room, error |-> error,
     role |-> role, event |-> event, attached |-> attached, sent |-> sent]

NoMResponse == MResponse("none", None, None, None, "ok", None, None, {}, {})

(***************************************************************************)
(* room.connected_clients is a dict: a sequence of Client records in       *)
(* insertion order, one per socket_id.                                     *)
(***************************************************************************)
CC_Keys(cc) == [i \in 1..Len(cc) |-> cc[i].socket_id]

CC_Has(cc, c) == \E i \in 1..Len(cc) : cc[i].socket_id = c

CC_Set(cc, c, rec) ==
    IF CC_Has(cc, c)
    THEN [i \in 1..Len(cc) |-> IF cc[i].socket_id = c THEN rec ELSE cc[i]]
    ELSE Append(cc, rec)

CC_Del(cc, c) == SelectSeq(cc, LAMBDA e : e.socket_id # c)

(* client.data_channel and client.data_channel.readyState == 'open' *)
ChannelOpen(e) == e.data_channel # NoChannel /\ pcs[e.data_channel].dc = "open"

(* every connected client counted, whatever its role *)
Listeners_any_role(cc) == 1..Len(cc)

Listeners(cc) == {i \in 1..Len(cc) : cc[i].role = "listener"}

(* Room.to_dict: the summary of a room in the room list *)
room_to_dict(room) ==
    [name |-> room.name,
     connected_clients |-> Len(room.connected_clients),
     listener_count |-> Cardinality(Listeners(room.connected_clients)),
     capacity_remaining |-> MAX_CAPACITY - Len(room.connected_clients)]

(***************************************************************************)
(* broadcast_to_room: the peers whose data channel the message is sent on. *)
(***************************************************************************)
broadcast_to_room(rms, room_id) ==
    IF room_id \notin DOMAIN rms THEN {}
    ELSE {rms[room_id].connected_clients[i].data_channel :
            i \in {j \in 1..Len(rms[room_id].connected_clients) :
                     ChannelOpen(rms[room_id].connected_clients[j])}}

(* the members of a room with an attached transport *)
Attached(room_id) == broadcast_to_room(srv_rooms, room_id)

(***************************************************************************)
(* _handle_identify_user                                                   *)
(***************************************************************************)
handle_identify_user(fp, nickname) ==
    /\ srv_users' = IF fp \notin DOMAIN srv_users
                    THEN DictSet(srv_users, fp, [nickname |-> nickname, room_id |-> None])
                    ELSE srv_users
    /\ mlast' = MResponse("identify", fp, None, None, "ok", None, None, {}, {})
    /\ UNCHANGED <<srv_rooms, srv_clients, srv_peers, pcs, tasks>>

(***************************************************************************)
(* _handle_create_room; new_room is str(uuid.uuid4())[:8]                  *)
(***************************************************************************)
uuid4(ids) == ids

handle_create_room(fp, room_name, new_room) ==
    IF room_name = ""
    THEN /\ mlast' = MResponse("create", fp, None, None, "Room name required",
                               None, None, {}, {})
         /\ UNCHANGED <<srv_users, srv_rooms, srv_clients, srv_peers, pcs, tasks>>
    ELSE IF fp \notin DOMAIN srv_users
    THEN /\ mlast' = MResponse("create", fp, None, None, "User not identified",
                               None, None, {}, {})
         /\ UNCHANGED <<srv_users, srv_rooms, srv_clients, srv_peers, pcs, tasks>>
    ELSE IF srv_users[fp].room_id # None
    THEN /\ mlast' = MResponse("create", fp, None, None, "You already created a room",
                               None, None, {}, {})
         /\ UNCHANGED <<srv_users, srv_rooms, srv_clients, srv_peers, pcs, tasks>>
    ELSE /\ srv_rooms' = DictSet(srv_rooms, new_room,
                            [name |-> room_name, dj_fingerprint |-> fp,
                             connected_clients |-> <<>>, current_audio |-> None,
                             is_playing |-> FALSE, audio_track |-> NoTrack])
         /\ srv_users' = [srv_users EXCEPT ![fp].room_id = new_room]
         /\ mlast' = MResponse("create", fp, None, new_room, "ok", None, None, {}, {})
         /\ UNCHANGED <<srv_clients, srv_peers, pcs, tasks>>

(***************************************************************************)
(* _handle_join_room                                                       *)
(***************************************************************************)
(* the capacity test of _handle_join_room, and a variant that rejects one
   client early *)
room_full_early(room) == Len(room.connected_clients) + 1 >= MAX_CAPACITY

(* variant of the capacity test that lets one client more in *)
room_full_late(room) == Len(room.connected_clients) > MAX_CAPACITY

room_full(room) == Len(room.connected_clients) >= MAX_CAPACITY

handle_join_room(room_id, client_id, fp) ==
    IF room_id \notin DOMAIN srv_rooms
    THEN /\ mlast' = MResponse("join", fp, client_id, room_id, "Room not found",
                               None, None, {}, {})
         /\ UNCHANGED <<srv_users, srv_rooms, srv_clients, srv_peers, pcs, tasks>>
    ELSE IF room_full(srv_rooms[room_id])
    THEN /\ mlast' = MResponse("join", fp, client_id, room_id, "Room is full",
                               None, None, {}, {})
         /\ UNCHANGED <<srv_users, srv_rooms, srv_clients, srv_peers, pcs, tasks>>
    ELSE LET role == IF fp = srv_rooms[room_id].dj_fingerprint THEN "dj" ELSE "listener"
             client == [socket_id |-> client_id, user_fingerprint |-> fp,
                        role |-> role, data_channel |-> NoChannel]
         IN /\ srv_rooms' = [srv_rooms EXCEPT ![room_id].connected_clients =
                                                  CC_Set(@, client_id, client)]
            /\ srv_clients' = DictSet(srv_clients, client_id,
                                 [user_fingerprint |-> fp, role |-> role,
                                  room_id |-> room_id])
            /\ mlast' = MResponse("join", fp, client_id, room_id, "ok", role,
                                  "room_update", Attached(room_id),
                                  broadcast_to_room(srv_rooms', room_id))
            /\ UNCHANGED <<srv_users, srv_peers, pcs, tasks>>

(***************************************************************************)
(* await peer.close(): the connection and its data channel are closed; the *)
(* calling handler is suspended until the close completes.                 *)
(***************************************************************************)
peer_close(ps, p) == [ps EXCEPT ![p].dc = "closed"]

Task(kind, room, fp, client, pending, attached) ==
    [kind |-> kind, room |-> room, fp |-> fp, client |-> client, pending |-> pending,
     attached |-> attached]

RemoveAt(seq, i) == [j \in 1..(Len(seq) - 1) |-> IF j < i THEN seq[j] ELSE seq[j + 1]]

(***************************************************************************)
(* _handle_leave_room, up to its response or to  await peer.close()        *)
(***************************************************************************)
handle_leave_room(room_id, client_id) ==
    LET member == room_id \in DOMAIN srv_rooms
                  /\ CC_Has(srv_rooms[room_id].connected_clients, client_id)
        rooms1 == IF member
                  THEN [srv_rooms EXCEPT ![room_id].connected_clients = CC_Del(@, client_id)]
                  ELSE srv_rooms
        event == IF member THEN "room_update" ELSE None
        attached == IF member THEN Attached(room_id) ELSE {}
        sent == IF member THEN broadcast_to_room(rooms1, room_id) ELSE {}
    IN /\ srv_rooms' = rooms1
       /\ srv_clients' = DictDel(srv_clients, client_id)
       /\ IF client_id \in DOMAIN srv_peers
          THEN /\ pcs' = peer_close(pcs, srv_peers[client_id])
               /\ tasks' = Append(tasks, Task("leave", room_id, None, client_id, <<>>, {}))
               /\ mlast' = MResponse("leave", None, client_id, room_id, "suspended", None,
                                     event, attached, sent)
          ELSE /\ mlast' = MResponse("leave", None, client_id, room_id, "ok", None,
                                     event, attached, sent)
               /\ UNCHANGED <<pcs, tasks>>
       /\ UNCHANGED <<srv_users, srv_peers>>

(* _handle_leave_room resumed after  await peer.close() : del self.peers[client_id] *)
resume_leave_room(i) ==
    LET t == tasks[i]
    IN /\ t.kind = "leave"
       /\ tasks' = RemoveAt(tasks, i)
       /\ IF t.client \in DOMAIN srv_peers
          THEN /\ srv_peers' = DictDel(srv_peers, t.client)
               /\ mlast' = MResponse("leave", None, t.client, t.room, "ok", None,
                                     None, {}, {})
          ELSE /\ mlast' = MResponse("leave", None, t.client, t.room, "KeyError", None,
                                     None, {}, {})
               /\ UNCHANGED srv_peers
       /\ UNCHANGED <<srv_users, srv_rooms, srv_clients, pcs>>

(***************************************************************************)
(* _handle_delete_room.  The loop over list(room.connected_clients.keys()) *)
(* skips the clients without a peer connection and suspends in             *)
(* await peer.close()  at the first client that has one.                   *)
(***************************************************************************)
RECURSIVE NextAwait(_, _)
NextAwait(pending, prs) ==
    IF pending = <<>> THEN <<>>
    ELSE IF Head(pending) \in prs THEN pending
    ELSE NextAwait(Tail(pending), prs)

(* the end of _handle_delete_room: clear the user's room_id, del self.rooms[room_id] *)
finish_delete_room(room_id, fp, attached) ==
    /\ srv_users' = IF fp \in DOMAIN srv_users
                    THEN [srv_users EXCEPT ![fp].room_id = None]
                    ELSE srv_users
    /\ IF room_id \in DOMAIN srv_rooms
       THEN /\ srv_rooms' = DictDel(srv_rooms, room_id)
            /\ mlast' = MResponse("delete", fp, None, room_id, "ok", None, None,
                                  attached, {})
       ELSE /\ mlast' = MResponse("delete", fp, None, room_id, "KeyError", None, None,
                                  {}, {})
            /\ UNCHANGED srv_rooms

handle_delete_room(room_id, fp) ==
    IF room_id \notin DOMAIN srv_rooms
    THEN /\ mlast' = MResponse("delete", fp, None, room_id, "Room not found",
                               None, None, {}, {})
         /\ UNCHANGED <<srv_users, srv_rooms, srv_clients, srv_peers, pcs, tasks>>
    ELSE IF srv_rooms[room_id].dj_fingerprint # fp
    THEN /\ mlast' = MResponse("delete", fp, None, room_id, "Only DJ can delete room",
                               None, None, {}, {})
         /\ UNCHANGED <<srv_users, srv_rooms, srv_clients, srv_peers, pcs, tasks>>
    ELSE LET pending == NextAwait(CC_Keys(srv_rooms[room_id].connected_clients),
                                  DOMAIN srv_peers)
         IN IF pending = <<>>
            THEN /\ finish_delete_room(room_id, fp, Attached(room_id))
                 /\ UNCHANGED <<srv_clients, srv_peers, pcs, tasks>>
            ELSE /\ pcs' = peer_close(pcs, srv_peers[Head(pending)])
                 /\ tasks' = Append(tasks, Task("delete", room_id, fp, None, pending,
                                                Attached(room_id)))
                 /\ mlast' = MResponse("delete", fp, None, room_id, "suspended", None, None,
                                       Attached(room_id), {})
                 /\ UNCHANGED <<srv_users, srv_rooms, srv_clients, srv_peers>>

(* _handle_delete_room resumed after  await peer.close() : del self.peers[client_id],
   then the rest of the loop *)
resume_delete_room(i) ==
    LET t == tasks[i]
        c == Head(t.pending)
        peers1 == DictDel(srv_peers, c)
        pending == NextAwait(Tail(t.pending), DOMAIN peers1)
    IN /\ t.kind = "delete"
       /\ IF c \notin DOMAIN srv_peers
          THEN /\ tasks' = RemoveAt(tasks, i)
               /\ mlast' = MResponse("delete", t.fp, None, t.room, "KeyError", None, None,
                                     {}, {})
               /\ UNCHANGED <<srv_users, srv_rooms, srv_peers, pcs>>
          ELSE /\ srv_peers' = peers1
               /\ IF pending = <<>>
                  THEN /\ tasks' = RemoveAt(tasks, i)
                       /\ finish_delete_room(t.room, t.fp, t.attached)
                       /\ UNCHANGED pcs
                  ELSE /\ pcs' = peer_close(pcs, peers1[Head(pending)])
                       /\ tasks' = [tasks EXCEPT ![i].pending = pending]
                       /\ mlast' = MResponse("delete", t.fp, None, t.room, "suspended", None,
                                             None, Attached(t.room), {})
                       /\ UNCHANGED <<srv_users, srv_rooms>>
       /\ UNCHANGED srv_clients

(***************************************************************************)
(* _handle_webrtc_offer: a new peer connection with its 'sync' data        *)
(* channel replaces self.peers[client_id]; the replaced one is not closed. *)
(* Its audio sender gets the room's track if the room has one.             *)
(***************************************************************************)
handle_webrtc_offer(client_id, room_id) ==
    /\ pcs' = Append(pcs, [client |-> client_id, dc |-> "connecting", ice |-> <<>>,
                           track |-> IF room_id \in DOMAIN srv_rooms
                                     THEN srv_rooms[room_id].audio_track
                                     ELSE NoTrack])
    /\ srv_peers' = DictSet(srv_peers, client_id, Len(pcs) + 1)
    /\ mlast' = MResponse("offer", None, client_id, room_id, "ok", None, None, {}, {})
    /\ UNCHANGED <<srv_users, srv_rooms, srv_clients, tasks>>

(***************************************************************************)
(* _handle_webrtc_offer.on_open: the data channel of peer p opens; it is   *)
(* stored in self.clients[client_id], the Client object that the room of   *)
(* its last join holds too.                                                *)
(***************************************************************************)
on_open(p) ==
    LET c == pcs[p].client
        r == IF c \in DOMAIN srv_clients THEN srv_clients[c].room_id ELSE None
    IN /\ pcs[p].dc = "connecting"
       /\ pcs' = [pcs EXCEPT ![p].dc = "open"]
       /\ srv_rooms' =
            IF r \in DOMAIN srv_rooms /\ CC_Has(srv_rooms[r].connected_clients, c)
            THEN [srv_rooms EXCEPT ![r].connected_clients =
                     [i \in 1..Len(@) |-> IF @[i].socket_id = c
                                          THEN [@[i] EXCEPT !.data_channel = p]
                                          ELSE @[i]]]
            ELSE srv_rooms
       /\ UNCHANGED <<srv_users, srv_clients, srv_peers, tasks, mlast>>

(***************************************************************************)
(* _handle_webrtc_offer.on_state: the connection of peer p is reported     *)
(* failed, closed or disconnected.                                         *)
(***************************************************************************)
(* variant of on_state that also deletes the rooms in which the client of the
   lost connection is connected as DJ *)
on_state_closes_rooms(p) ==
    /\ pcs[p].client \in DOMAIN srv_peers
    /\ srv_peers' = DictDel(srv_peers, pcs[p].client)
    /\ srv_rooms' = [r \in {x \in DOMAIN srv_rooms :
                               \A i \in 1..Len(srv_rooms[x].connected_clients) :
                                   \/ srv_rooms[x].connected_clients[i].socket_id
                                        # pcs[p].client
                                   \/ srv_rooms[x].connected_clients[i].role # "dj"}
                        |-> srv_rooms[r]]
    /\ UNCHANGED <<srv_users, srv_clients, pcs, tasks, mlast>>

on_state(p) ==
    /\ pcs[p].client \in DOMAIN srv_peers
    /\ srv_peers' = DictDel(srv_peers, pcs[p].client)
    /\ UNCHANGED <<srv_users, srv_rooms, srv_clients, pcs, tasks, mlast>>

(***************************************************************************)
(* _handle_ice_candidate: the candidate is added to the peer connection    *)
(* that self.peers holds for the client; addIceCandidate raises on a       *)
(* candidate it cannot read.                                               *)
(***************************************************************************)
Candidates == {"cand_1", "cand_2"}
Malformed == "malformed"

handle_ice_candidate(peer_id, candidate) ==
    IF peer_id \notin DOMAIN srv_peers
    THEN /\ mlast' = MResponse("ice", None, peer_id, None, "Peer not found",
                               None, None, {}, {})
         /\ UNCHANGED <<srv_users, srv_rooms, srv_clients, srv_peers, pcs, tasks>>
    ELSE IF candidate = Malformed
    THEN /\ mlast' = MResponse("ice", None, peer_id, None, "Exception",
                               None, None, {}, {})
         /\ UNCHANGED <<srv_users, srv_rooms, srv_clients, srv_peers, pcs, tasks>>
    ELSE /\ pcs' = IF candidate # None
                   THEN [pcs EXCEPT ![srv_peers[peer_id]].ice = Append(@, candidate)]
                   ELSE pcs
         /\ mlast' = MResponse("ice", None, peer_id, None, "ok", None, None, {}, {})
         /\ UNCHANGED <<srv_users, srv_rooms, srv_clients, srv_peers, tasks>>

(***************************************************************************)
(* PausableAudioTrack.  An audio file is what av.open, demux, decode and   *)
(* resample make of it: whether it opens with an audio stream, and its     *)
(* packets in order, each giving the sample counts of its resampled        *)
(* frames (none for a packet that yields no frame) or failing to decode.   *)
(***************************************************************************)
SILENCE_SAMPLES == 960

Packet(frames) == [ok |-> TRUE, frames |-> frames]
CorruptPacket == [ok |-> FALSE, frames |-> <<>>]

Files ==
    [path \in {"a.mp3", "c.mp3", "x.mp3"} |->
        CASE path = "a.mp3" ->
                 [opens |-> TRUE,
                  packets |-> <<Packet(<<1024>>), Packet(<<>>), Packet(<<1152, 1024>>)>>]
          [] path = "c.mp3" ->
                 [opens |-> TRUE, packets |-> <<CorruptPacket, Packet(<<1024>>)>>]
          [] path = "x.mp3" ->
                 [opens |-> FALSE, packets |-> <<>>]]

(* PausableAudioTrack.__init__; pos is the number of packets that the
   container has read, eof_logged the attribute _eof_logged, stopped the
   state set by MediaStreamTrack.stop() *)
PausableAudioTrack(filepath) ==
    [filepath |-> filepath, is_started |-> FALSE, is_paused |-> FALSE,
     frame_count |-> 0, timestamp |-> 0, pos |-> 0, eof_logged |-> FALSE,
     stopped |-> FALSE]

(* variant of set_paused that stores the opposite flag *)
set_paused_inverted(track, paused) == [track EXCEPT !.is_paused = ~paused]

set_paused(track, paused) == [track EXCEPT !.is_paused = paused]

(* _init_stream: opens the file on the first call that succeeds *)
init_stream(track) ==
    IF track.is_started THEN [track |-> track, raised |-> FALSE]
    ELSE IF Files[track.filepath].opens
    THEN [track |-> [track EXCEPT !.is_started = TRUE], raised |-> FALSE]
    ELSE [track |-> track, raised |-> TRUE]

Frame(kind, pts, samples, src, cause, logged) ==
    [kind |-> kind, pts |-> pts, samples |-> samples, src |-> src, cause |-> cause,
     logged |-> logged]

(* variant of the silence frame that leaves _timestamp as it is *)
Silence_same_pts(track, cause, logged) ==
    [track |-> track,
     frame |-> Frame("silence", track.timestamp, SILENCE_SAMPLES, 0, cause, logged)]

(* av.AudioFrame(samples=960) with pts = _timestamp; _timestamp += 960 *)
Silence(track, cause, logged) ==
    [track |-> [track EXCEPT !.timestamp = @ + SILENCE_SAMPLES],
     frame |-> Frame("silence", track.timestamp, SILENCE_SAMPLES, 0, cause, logged)]

(* the first packet after the read position that fails to decode or yields
   a frame; 0 when the rest of the file yields nothing *)
NextPacket(track) ==
    LET packets == Files[track.filepath].packets
        found == {k \in (track.pos + 1)..Len(packets) :
                     ~packets[k].ok \/ packets[k].frames # <<>>}
    IN IF found = {} THEN 0 ELSE CHOOSE k \in found : \A j \in found : k <= j

(* the paused branch of recv *)
recv_paused(track) == Silence(track, "paused", FALSE)

(***************************************************************************)
(* recv: one call.  eof_raises tells whether reading at the end of the     *)
(* file raises ("End of file") or ends the demux loop.  The result is the  *)
(* track after the call and the frame returned, or "raised" when the call  *)
(* lets an exception out.                                                  *)
(***************************************************************************)
recv(track, eof_raises) ==
    LET started == init_stream(track).track
        packets == Files[track.filepath].packets
        k == NextPacket(started)
    IN IF init_stream(track).raised
       THEN [track |-> track, frame |-> Frame("raised", 0, 0, 0, "open", FALSE)]
       ELSE IF started.is_paused
       THEN recv_paused(started)
       ELSE IF k = 0
       THEN IF eof_raises
            THEN Silence([started EXCEPT !.pos = Len(packets)], "error", FALSE)
            ELSE Silence([started EXCEPT !.pos = Len(packets), !.eof_logged = TRUE],
                         "eof", ~started.eof_logged)
       ELSE IF ~packets[k].ok
       THEN Silence([started EXCEPT !.pos = k], "error", FALSE)
       ELSE [track |-> [started EXCEPT !.pos = k,
                                       !.timestamp = @ + packets[k].frames[1],
                                       !.frame_count = @ + 1],
             frame |-> Frame("real", started.timestamp, packets[k].frames[1], k,
                             "data", FALSE)]

(***************************************************************************)
(* self.global_library: track_id -> the path of the audio file.            *)
(***************************************************************************)
GlobalLibrary ==
    [track_id \in {"t_a", "t_c", "t_x"} |->
        CASE track_id = "t_a" -> "a.mp3"
          [] track_id = "t_c" -> "c.mp3"
          [] track_id = "t_x" -> "x.mp3"]

(* the peer connections whose sender replaceTrack is called on by play *)
Senders(room) ==
    {p \in 1..Len(pcs) :
        \E i \in 1..Len(room.connected_clients) :
            /\ room.connected_clients[i].socket_id \in DOMAIN srv_peers
            /\ srv_peers[room.connected_clients[i].socket_id] = p}

(***************************************************************************)
(* _handle_play_audio: the room's old track is stopped, a new track over   *)
(* the file is made the room's track and given to the sender of every      *)
(* connected client that has a peer connection.                            *)
(***************************************************************************)
handle_play_audio(room_id, fp, track_id) ==
    IF room_id \notin DOMAIN srv_rooms
    THEN /\ mlast' = MResponse("play", fp, None, room_id, "Room not found",
                               None, None, {}, {})
         /\ UNCHANGED <<srv_users, srv_rooms, srv_clients, srv_peers, pcs, tasks, tracks>>
    ELSE IF srv_rooms[room_id].dj_fingerprint # fp
    THEN /\ mlast' = MResponse("play", fp, None, room_id, "Only DJ can control playback",
                               None, None, {}, {})
         /\ UNCHANGED <<srv_users, srv_rooms, srv_clients, srv_peers, pcs, tasks, tracks>>
    ELSE IF track_id \notin DOMAIN GlobalLibrary
    THEN /\ mlast' = MResponse("play", fp, None, room_id, "Track not found",
                               None, None, {}, {})
         /\ UNCHANGED <<srv_users, srv_rooms, srv_clients, srv_peers, pcs, tasks, tracks>>
    ELSE LET old == srv_rooms[room_id].audio_track
             stopped == IF old # NoTrack THEN [tracks EXCEPT ![old].stopped = TRUE]
                        ELSE tracks
             new == Len(tracks) + 1
         IN /\ tracks' = Append(stopped,
                                set_paused(PausableAudioTrack(GlobalLibrary[track_id]),
                                           FALSE))
            /\ srv_rooms' = [srv_rooms EXCEPT ![room_id].current_audio = track_id,
                                              ![room_id].is_playing = TRUE,
                                              ![room_id].audio_track = new]
            /\ pcs' = [p \in 1..Len(pcs) |->
                          IF p \in Senders(srv_rooms[room_id])
                          THEN [pcs[p] EXCEPT !.track = new] ELSE pcs[p]]
            /\ mlast' = MResponse("play", fp, None, room_id, "ok", None, "track_change",
                                  Attached(room_id), broadcast_to_room(srv_rooms', room_id))
            /\ UNCHANGED <<srv_users, srv_clients, srv_peers, tasks>>

(***************************************************************************)
(* _handle_pause_audio and _handle_resume_audio                            *)
(***************************************************************************)
(* variant of the test that lets any browser control an existing room *)
unauthorized_room_only(room_id, fp) == room_id \notin DOMAIN srv_rooms

(* if not room or room.dj_fingerprint != user_fingerprint *)
unauthorized(room_id, fp) ==
    room_id \notin DOMAIN srv_rooms \/ srv_rooms[room_id].dj_fingerprint # fp

(* variant of set_playback that sets the room's flag and leaves the track alone *)
set_playback_flag_only(op, room_id, fp, playing) ==
    IF unauthorized(room_id, fp)
    THEN /\ mlast' = MResponse(op, fp, None, room_id, "Unauthorized", None, None, {}, {})
         /\ UNCHANGED <<srv_users, srv_rooms, srv_clients, srv_peers, pcs, tasks, tracks>>
    ELSE IF srv_rooms[room_id].audio_track # NoTrack
    THEN /\ srv_rooms' = [srv_rooms EXCEPT ![room_id].is_playing = playing]
         /\ mlast' = MResponse(op, fp, None, room_id, "ok", None, "playback_state",
                               Attached(room_id), broadcast_to_room(srv_rooms', room_id))
         /\ UNCHANGED <<srv_users, srv_clients, srv_peers, pcs, tasks, tracks>>
    ELSE /\ mlast' = MResponse(op, fp, None, room_id, "ok", None, None, {}, {})
         /\ UNCHANGED <<srv_users, srv_rooms, srv_clients, srv_peers, pcs, tasks, tracks>>

set_playback(op, room_id, fp, playing) ==
    IF unauthorized(room_id, fp)
    THEN /\ mlast' = MResponse(op, fp, None, room_id, "Unauthorized", None, None, {}, {})
         /\ UNCHANGED <<srv_users, srv_rooms, srv_clients, srv_peers, pcs, tasks, tracks>>
    ELSE IF srv_rooms[room_id].audio_track # NoTrack
    THEN /\ tracks' = [tracks EXCEPT ![srv_rooms[room_id].audio_track] =
                                         set_paused(@, ~playing)]
         /\ srv_rooms' = [srv_rooms EXCEPT ![room_id].is_playing = playing]
         /\ mlast' = MResponse(op, fp, None, room_id, "ok", None, "playback_state",
                               Attached(room_id), broadcast_to_room(srv_rooms', room_id))
         /\ UNCHANGED <<srv_users, srv_clients, srv_peers, pcs, tasks>>
    ELSE /\ mlast' = MResponse(op, fp, None, room_id, "ok", None, None, {}, {})
         /\ UNCHANGED <<srv_users, srv_rooms, srv_clients, srv_peers, pcs, tasks, tracks>>

handle_pause_audio(room_id, fp) == set_playback("pause", room_id, fp, FALSE)

handle_resume_audio(room_id, fp) == set_playback("resume", room_id, fp, TRUE)

(***************************************************************************)
(* The audio sender of a peer connection asks its track for the next frame *)
(* (recv) whenever it is ready to send one; the senders of a room were all *)
(* given the same track object.                                            *)
(***************************************************************************)
Running(p) == pcs[p].track # NoTrack /\ pcs[p].dc # "closed"

(* one call of recv() in the history: the frame, the sender that called and
   the senders that held the track at the call *)
Pulled(frame, by, attached) ==
    [kind |-> frame.kind, pts |-> frame.pts, samples |-> frame.samples,
     src |-> frame.src, cause |-> frame.cause, logged |-> frame.logged,
     by |-> by, attached |-> attached]

sender_pull(p, eof_raises) ==
    /\ tracks' = [tracks EXCEPT ![pcs[p].track] = recv(@, eof_raises).track]
    /\ UNCHANGED <<srv_users, srv_rooms, srv_clients, srv_peers, pcs, tasks, mlast>>

(***************************************************************************)
(* _handle_webrtc_offer.on_ice_state with iceConnectionState 'failed': the *)
(* peer connection is closed and the entry of its client in self.peers is  *)
(* deleted.                                                                *)
(***************************************************************************)
on_ice_state(p) ==
    /\ pcs[p].dc # "closed"
    /\ pcs' = peer_close(pcs, p)
    /\ srv_peers' = DictDel(srv_peers, pcs[p].client)
    /\ UNCHANGED <<srv_users, srv_rooms, srv_clients, tasks, mlast>>

InitMain ==
    /\ srv_users = EmptyDict
    /\ srv_rooms = EmptyDict
    /\ srv_clients = EmptyDict
    /\ srv_peers = EmptyDict
    /\ pcs = <<>>
    /\ tasks = <<>>
    /\ joined = EmptyDict
    /\ mlast = NoMResponse
    /\ ice_sent = EmptyDict
    /\ tracks = <<>>
    /\ pulls = <<>>

MIdle == mlast.op = "none"

MRespond ==
    /\ ~MIdle
    /\ mlast' = NoMResponse
    /\ UNCHANGED <<srv_users, srv_rooms, srv_clients, srv_peers, pcs, tasks, joined>>
    /\ UNCHANGED <<apiVars, playVars>>

(* the history of the rooms that still exist *)
Existing(j, rms) == [r \in (DOMAIN j) \cap rms |-> j[r]]

IdentifyUser(F) ==
    /\ MIdle
    /\ UNCHANGED <<apiVars, playVars>>
    /\ \E fp \in F, nickname \in OneName : handle_identify_user(fp, nickname)
    /\ UNCHANGED joined

CreateRoom(F, R) ==
    /\ MIdle
    /\ UNCHANGED <<apiVars, playVars>>
    /\ \E fp \in F, room_name \in MainRoomNames, new_room \in uuid4(R) :
           /\ handle_create_room(fp, room_name, new_room)
           /\ joined' = IF mlast'.error = "ok"
                        THEN DictSet(joined, new_room, [since |-> {}, latest |-> {}])
                        ELSE joined

JoinRoom(F, S, R) ==
    /\ MIdle
    /\ UNCHANGED <<apiVars, playVars>>
    /\ \E room_id \in R, client_id \in S, fp \in F :
           /\ handle_join_room(room_id, client_id, fp)
           /\ joined' = IF mlast'.error # "ok" THEN joined
                        ELSE IF mlast'.role = "listener"
                        THEN [joined EXCEPT ![room_id].since = @ \cup {client_id},
                                            ![room_id].latest = @ \cup {client_id}]
                        ELSE [joined EXCEPT ![room_id].latest = @ \ {client_id}]

LeaveRoom(S, R, max_tasks) ==
    /\ MIdle
    /\ Len(tasks) < max_tasks
    /\ UNCHANGED <<apiVars, playVars>>
    /\ \E room_id \in R, client_id \in S :
           /\ handle_leave_room(room_id, client_id)
           /\ joined' = IF room_id \in DOMAIN joined
                        THEN [joined EXCEPT ![room_id].since = @ \ {client_id},
                                            ![room_id].latest = @ \ {client_id}]
                        ELSE joined

LeaveResume ==
    /\ MIdle
    /\ UNCHANGED <<apiVars, playVars>>
    /\ \E i \in 1..Len(tasks) : resume_leave_room(i)
    /\ UNCHANGED joined

DeleteRoom(F, R, max_tasks) ==
    /\ MIdle
    /\ Len(tasks) < max_tasks
    /\ UNCHANGED <<apiVars, playVars>>
    /\ \E room_id \in R, fp \in F : handle_delete_room(room_id, fp)
    /\ joined' = Existing(joined, DOMAIN srv_rooms')

DeleteResume ==
    /\ MIdle
    /\ UNCHANGED <<apiVars, playVars>>
    /\ \E i \in 1..Len(tasks) : resume_delete_room(i)
    /\ joined' = Existing(joined, DOMAIN srv_rooms')

Offer(S, R, max_peers) ==
    /\ MIdle
    /\ Len(pcs) < max_peers
    /\ UNCHANGED <<apiVars, playVars>>
    /\ \E client_id \in S, room_id \in R : handle_webrtc_offer(client_id, room_id)
    /\ UNCHANGED joined

OnOpen ==
    /\ MIdle
    /\ UNCHANGED <<apiVars, playVars>>
    /\ \E p \in 1..Len(pcs) : on_open(p)
    /\ UNCHANGED joined

OnState ==
    /\ MIdle
    /\ UNCHANGED <<apiVars, playVars>>
    /\ \E p \in 1..Len(pcs) : on_state(p)
    /\ UNCHANGED joined

IceSent(c) == IF c \in DOMAIN ice_sent THEN ice_sent[c] ELSE <<>>

Ice(S, max_ice) ==
    /\ MIdle
    /\ UNCHANGED apiVars
    /\ \E peer_id \in S, candidate \in Candidates \cup {None, Malformed} :
           /\ Len(IceSent(peer_id)) < max_ice
           /\ handle_ice_candidate(peer_id, candidate)
           /\ ice_sent' = IF candidate \in Candidates
                          THEN DictSet(ice_sent, peer_id,
                                       Append(IceSent(peer_id), candidate))
                          ELSE ice_sent
    /\ UNCHANGED <<joined, tracks, pulls>>

(***************************************************************************)
(* The operations of one PausableAudioTrack, called directly.              *)
(***************************************************************************)
TrackNew(P) ==
    /\ tracks = <<>>
    /\ \E filepath \in P :
           /\ tracks' = Append(tracks, PausableAudioTrack(filepath))
           /\ pulls' = Append(pulls, <<>>)
    /\ UNCHANGED <<apiVars, mainVars, ice_sent>>

TrackSetPaused ==
    /\ \E t \in 1..Len(tracks), paused \in BOOLEAN :
           tracks' = [tracks EXCEPT ![t] = set_paused(@, paused)]
    /\ UNCHANGED <<apiVars, mainVars, ice_sent, pulls>>

TrackRecv(max_pulls) ==
    /\ \E t \in 1..Len(tracks), eof_raises \in BOOLEAN :
           /\ Len(pulls[t]) < max_pulls
           /\ tracks' = [tracks EXCEPT ![t] = recv(@, eof_raises).track]
           /\ pulls' = [pulls EXCEPT ![t] =
                           Append(@, Pulled(recv(tracks[t], eof_raises).frame, 0, {}))]
    /\ UNCHANGED <<apiVars, mainVars, ice_sent>>

TrackInputs == DOMAIN GlobalLibrary \cup {"t_none"}

PlayAudio(F, R, T, max_tracks) ==
    /\ MIdle
    /\ Len(tracks) < max_tracks
    /\ \E room_id \in R, fp \in F, track_id \in T :
           handle_play_audio(room_id, fp, track_id)
    /\ pulls' = IF Len(tracks') > Len(tracks) THEN Append(pulls, <<>>) ELSE pulls
    /\ UNCHANGED <<apiVars, joined, ice_sent>>

PauseAudio(F, R) ==
    /\ MIdle
    /\ \E room_id \in R, fp \in F : handle_pause_audio(room_id, fp)
    /\ UNCHANGED <<apiVars, joined, ice_sent, pulls>>

ResumeAudio(F, R) ==
    /\ MIdle
    /\ \E room_id \in R, fp \in F : handle_resume_audio(room_id, fp)
    /\ UNCHANGED <<apiVars, joined, ice_sent, pulls>>

Pull(max_pulls) ==
    /\ MIdle
    /\ \E p \in 1..Len(pcs), eof_raises \in BOOLEAN :
           /\ Running(p)
           /\ Len(pulls[pcs[p].track]) < max_pulls
           /\ sender_pull(p, eof_raises)
           /\ pulls' = [pulls EXCEPT ![pcs[p].track] =
                           Append(@, Pulled(recv(tracks[pcs[p].track], eof_raises).frame, p,
                                            {q \in 1..Len(pcs) :
                                                Running(q) /\ pcs[q].track = pcs[p].track}))]
    /\ UNCHANGED <<apiVars, joined, ice_sent>>

WebSockets == {"ws_1", "ws_2"}

WsConnect(W) ==
    /\ \E ws \in W : ws_connect(ws)
    /\ UNCHANGED <<hist, mainVars, playVars>>

WsDisconnect ==
    /\ \E ws \in room_update_subscribers : ws_disconnect(ws)
    /\ UNCHANGED <<hist, mainVars, playVars>>

BroadcastResume ==
    /\ \E fails \in BOOLEAN : broadcast_resume(fails)
    /\ UNCHANGED <<hist, mainVars, playVars>>

(* the suspended send of a broadcast completes without an exception *)
BroadcastDelivers ==
    /\ broadcast_resume(FALSE)
    /\ UNCHANGED <<hist, mainVars, playVars>>

JoinWhileBroadcasting(C, R) ==
    /\ \E room_id \in R, client_id \in C : join_while_broadcasting(room_id, client_id)
    /\ UNCHANGED <<hist, mainVars, playVars>>

OnIceState ==
    /\ MIdle
    /\ UNCHANGED <<apiVars, playVars>>
    /\ \E p \in 1..Len(pcs) : on_ice_state(p)
    /\ UNCHANGED joined

Init == InitApi /\ InitMain

(***************************************************************************)
(* SpecApi: identities, rooms and admission (two rooms, one display name). *)
(***************************************************************************)
NextApi ==
    \/ Identify(ClientIds, OneName)
    \/ RoomCreate(ClientIds, RoomIds, {FALSE})
    \/ RoomJoin(ClientIds, RoomIds, {FALSE})
    \/ RoomClose(ClientIds, RoomIds, {FALSE})
    \/ Respond

SpecApi == Init /\ [][NextApi]_vars

(***************************************************************************)
(* SpecIdentity: the identity registry (two display names, one room).      *)
(***************************************************************************)
NextIdentity ==
    \/ Identify(ClientIds, Names)
    \/ RoomCreate(ClientIds, OneRoom, {FALSE})
    \/ RoomJoin(ClientIds, OneRoom, {FALSE})
    \/ RoomClose(ClientIds, OneRoom, {FALSE})
    \/ Presence(ClientIds, OneRoom)
    \/ Respond

SpecIdentity == Init /\ [][NextIdentity]_vars

(***************************************************************************)
(* SpecPresence: heartbeats and the staleness window (two clients, one     *)
(* room, the clock advances).                                              *)
(***************************************************************************)
NextPresence ==
    \/ Identify(TwoClients, OneName)
    \/ RoomCreate(TwoClients, OneRoom, {FALSE})
    \/ RoomJoin(TwoClients, OneRoom, {FALSE})
    \/ RoomClose(TwoClients, OneRoom, {FALSE})
    \/ Presence(TwoClients, OneRoom)
    \/ DjPresence(TwoClients, OneRoom, {FALSE})
    \/ Clock
    \/ Respond

SpecPresence == Init /\ [][NextPresence]_vars

(***************************************************************************)
(* SpecMain: SilentDiscoServer with two browsers and two sockets: its      *)
(* handlers, those suspended in an await, and the callbacks of its peer    *)
(* connections.                                                            *)
(***************************************************************************)
NextMain ==
    \/ IdentifyUser(Fingerprints)
    \/ CreateRoom(Fingerprints, OneRoom)
    \/ JoinRoom(Fingerprints, SocketIds, OneRoom)
    \/ LeaveRoom(SocketIds, OneRoom, MainTasks)
    \/ LeaveResume
    \/ DeleteRoom(Fingerprints, OneRoom, MainTasks)
    \/ DeleteResume
    \/ Offer(SocketIds, OneRoom, MainPeers)
    \/ OnOpen
    \/ OnState
    \/ MRespond

SpecMain == Init /\ [][NextMain]_vars

(***************************************************************************)
(* SpecMembers: the membership of a room under join, leave and delete      *)
(* requests of two browsers and two sockets, with peer connections whose   *)
(* data channel has not opened.                                            *)
(***************************************************************************)
NextMembers ==
    \/ IdentifyUser(Fingerprints)
    \/ CreateRoom(Fingerprints, OneRoom)
    \/ JoinRoom(Fingerprints, SocketIds, OneRoom)
    \/ LeaveRoom(SocketIds, OneRoom, MainTasks)
    \/ LeaveResume
    \/ DeleteRoom(Fingerprints, OneRoom, MainTasks)
    \/ DeleteResume
    \/ Offer(SocketIds, OneRoom, MainPeers)
    \/ OnState
    \/ MRespond

SpecMembers == Init /\ [][NextMembers]_vars

(***************************************************************************)
(* SpecRace: concurrent create, join and delete requests of two browsers   *)
(* over two room ids, with one socket that may send several offers.        *)
(***************************************************************************)
NextRace ==
    \/ IdentifyUser(Fingerprints)
    \/ CreateRoom(Fingerprints, RoomIds)
    \/ JoinRoom(Fingerprints, OneSocket, RoomIds)
    \/ DeleteRoom(Fingerprints, RoomIds, MaxTasks)
    \/ DeleteResume
    \/ Offer(OneSocket, OneRoom, MaxPeers)
    \/ MRespond

SpecRace == Init /\ [][NextRace]_vars


(***************************************************************************)
(* The two servers are separate programs: a behaviour exercises one of     *)
(* them while the other stays in its initial state.                        *)
(***************************************************************************)
ApiQuiet ==
    /\ rooms = EmptyDict /\ clients = EmptyDict /\ last = NoResponse
    /\ room_update_subscribers = {} /\ ws_inbox = EmptyDict /\ ~bcast.active

MainQuiet ==
    /\ srv_users = EmptyDict /\ srv_rooms = EmptyDict /\ srv_clients = EmptyDict
    /\ srv_peers = EmptyDict /\ pcs = <<>> /\ tasks = <<>> /\ mlast = NoMResponse
    /\ playVars = <<EmptyDict, <<>>, <<>>>>

(***************************************************************************)
(* SpecAdmission: the join requests of both servers.  In main.py one DJ    *)
(* creates a room and listener sockets join it one after the other until   *)
(* it is full; socket ids are interchangeable, so a fresh joiner takes the *)
(* lowest unused id.                                                       *)
(***************************************************************************)
NumJoiners == 51

Joiner(i) == "sock_" \o ToString(i)

NextJoiners ==
    IF "room_1" \in DOMAIN srv_rooms
    THEN LET n == Len(srv_rooms["room_1"].connected_clients)
         IN {Joiner(i) : i \in 1..(IF n < NumJoiners THEN n + 1 ELSE NumJoiners)}
    ELSE {Joiner(1)}

NextAdmission ==
    \/ MainQuiet /\ Identify(ClientIds, OneName)
    \/ MainQuiet /\ RoomCreate(ClientIds, RoomIds, {FALSE})
    \/ MainQuiet /\ RoomJoin(ClientIds, RoomIds, {FALSE})
    \/ MainQuiet /\ RoomClose(ClientIds, RoomIds, {FALSE})
    \/ MainQuiet /\ Respond
    \/ ApiQuiet /\ IdentifyUser({"fp_1"})
    \/ ApiQuiet /\ CreateRoom({"fp_1"}, OneRoom)
    \/ ApiQuiet /\ JoinRoom({"fp_2"}, NextJoiners, {"room_1", "room_2"})
    \/ ApiQuiet /\ MRespond

SpecAdmission == Init /\ [][NextAdmission]_vars

(***************************************************************************)
(* SpecSignal: one socket posts offers and ICE candidates in any order,    *)
(* and its connection may be reported closed.                              *)
(***************************************************************************)
MaxIce == 3

NextSignal ==
    \/ Offer(OneSocket, OneRoom, MaxPeers)
    \/ Ice(OneSocket, MaxIce)
    \/ OnState
    \/ MRespond

SpecSignal == Init /\ [][NextSignal]_vars

(***************************************************************************)
(* SpecTrack: a track over any of the files, pulled, paused and resumed    *)
(* in any order.                                                           *)
(***************************************************************************)
MaxPulls == 6

NextTrack ==
    \/ TrackNew(DOMAIN Files)
    \/ TrackSetPaused
    \/ TrackRecv(MaxPulls)

SpecTrack == Init /\ [][NextTrack]_vars

(***************************************************************************)
(* SpecPlayback: a DJ and a listener browser, two sockets in one room, the *)
(* DJ's playback requests and the senders pulling the room's track.        *)
(***************************************************************************)
PlayTracks == 1
PlayPulls == 4

NextPlayback ==
    \/ IdentifyUser({"fp_1"})
    \/ CreateRoom({"fp_1"}, OneRoom)
    \/ JoinRoom({"fp_2"}, SocketIds, OneRoom)
    \/ Offer(SocketIds, OneRoom, MaxPeers)
    \/ PlayAudio({"fp_1"}, OneRoom, {"t_a"}, PlayTracks)
    \/ PauseAudio({"fp_1"}, OneRoom)
    \/ ResumeAudio({"fp_1"}, OneRoom)
    \/ Pull(PlayPulls)
    \/ MRespond

SpecPlayback == Init /\ [][NextPlayback]_vars

(***************************************************************************)
(* SpecControl: play, pause and resume requests of two browsers for two    *)
(* room ids, one of which can exist, over every track id.                  *)
(***************************************************************************)
NextControl ==
    \/ IdentifyUser(Fingerprints)
    \/ CreateRoom(Fingerprints, OneRoom)
    \/ PlayAudio(Fingerprints, RoomIds, TrackInputs, PlayTracks)
    \/ PauseAudio(Fingerprints, RoomIds)
    \/ ResumeAudio(Fingerprints, RoomIds)
    \/ MRespond

SpecControl == Init /\ [][NextControl]_vars

(***************************************************************************)
(* SpecFanout: one client creates, joins and closes a room while directory *)
(* WebSockets connect and disconnect; a broadcast may be suspended in any  *)
(* of its sends.                                                           *)
(***************************************************************************)
OneClient == {"client_1"}

NextFanout ==
    \/ Identify(OneClient, OneName)
    \/ RoomCreate(OneClient, OneRoom, BOOLEAN)
    \/ RoomJoin(OneClient, OneRoom, BOOLEAN)
    \/ RoomClose(OneClient, OneRoom, BOOLEAN)
    \/ WsConnect(WebSockets)
    \/ WsDisconnect
    \/ BroadcastResume
    \/ Respond

SpecFanout == Init /\ [][NextFanout]_vars

(***************************************************************************)
(* SpecReuse: identities that come back with their id, under two display   *)
(* names, while the clock advances and rooms are created and joined.       *)
(***************************************************************************)
NextReuse ==
    \/ Identify(TwoClients, Names)
    \/ RoomCreate(TwoClients, OneRoom, {FALSE})
    \/ RoomJoin(TwoClients, OneRoom, {FALSE})
    \/ Clock
    \/ Respond

SpecReuse == Init /\ [][NextReuse]_vars

(***************************************************************************)
(* SpecLoad: the DJ of a room plays one track after another, pausing and   *)
(* resuming in between.                                                    *)
(***************************************************************************)
LoadTracks == 2       \* tracks played in a run of SpecLoad

NextLoad ==
    \/ IdentifyUser(Fingerprints)
    \/ CreateRoom({"fp_1"}, OneRoom)
    \/ PlayAudio(Fingerprints, OneRoom, {"t_a", "t_c"}, LoadTracks)
    \/ PauseAudio({"fp_1"}, OneRoom)
    \/ ResumeAudio({"fp_1"}, OneRoom)
    \/ MRespond

SpecLoad == Init /\ [][NextLoad]_vars

(***************************************************************************)
(* SpecDirectory: three directory WebSockets connect and disconnect while  *)
(* one client creates, joins and closes a room; every send of a broadcast  *)
(* suspends and every send succeeds.                                       *)
(***************************************************************************)
ThreeSockets == {"ws_1", "ws_2", "ws_3"}

NextDirectory ==
    \/ Identify(OneClient, OneName)
    \/ RoomCreate(OneClient, OneRoom, {TRUE})
    \/ RoomJoin(OneClient, OneRoom, {TRUE})
    \/ RoomClose(OneClient, OneRoom, {TRUE})
    \/ WsConnect(ThreeSockets)
    \/ WsDisconnect
    \/ BroadcastDelivers
    \/ Respond

SpecDirectory == Init /\ [][NextDirectory]_vars

(***************************************************************************)
(* SpecOverlap: a listener joins while the broadcast of a create or join   *)
(* request is suspended in a send; every send succeeds.                    *)
(***************************************************************************)
NextOverlap ==
    \/ Identify(TwoClients, OneName)
    \/ RoomCreate(TwoClients, OneRoom, {TRUE})
    \/ RoomJoin(TwoClients, OneRoom, {TRUE})
    \/ JoinWhileBroadcasting(TwoClients, OneRoom)
    \/ WsConnect(WebSockets)
    \/ WsDisconnect
    \/ BroadcastDelivers
    \/ Respond

SpecOverlap == Init /\ [][NextOverlap]_vars

(***************************************************************************)
(* SpecCapacity: sockets join room_1 in id order up to its capacity and    *)
(* beyond, the socket that joined last may leave, and the leave of the     *)
(* socket that fills the room, which posts an offer, is suspended in       *)
(* await peer.close()  and overtaken by joins.                             *)
(***************************************************************************)
FillingSocket == {Joiner(MAX_CAPACITY)}

LastJoined ==
    IF "room_1" \in DOMAIN srv_rooms /\ srv_rooms["room_1"].connected_clients # <<>>
    THEN LET cc == srv_rooms["room_1"].connected_clients
         IN {cc[Len(cc)].socket_id}
    ELSE {}

NextCapacity ==
    \/ IdentifyUser({"fp_1"})
    \/ CreateRoom({"fp_1"}, OneRoom)
    \/ JoinRoom({"fp_2"}, NextJoiners, OneRoom)
    \/ Offer(FillingSocket, OneRoom, MainPeers)
    \/ LeaveRoom(LastJoined, OneRoom, MainTasks)
    \/ LeaveResume
    \/ MRespond

SpecCapacity == Init /\ [][NextCapacity]_vars

(***************************************************************************)
(* SpecTransport: transports come and go in either server: directory       *)
(* WebSockets of the HTTP API, peer connections of SilentDiscoServer.      *)
(***************************************************************************)
NextTransport ==
    \/ MainQuiet /\ Identify(OneClient, OneName)
    \/ MainQuiet /\ RoomCreate(OneClient, OneRoom, {FALSE})
    \/ MainQuiet /\ RoomJoin(OneClient, OneRoom, {FALSE})
    \/ MainQuiet /\ WsConnect(WebSockets)
    \/ MainQuiet /\ WsDisconnect
    \/ MainQuiet /\ Respond
    \/ ApiQuiet /\ IdentifyUser(Fingerprints)
    \/ ApiQuiet /\ CreateRoom(Fingerprints, OneRoom)
    \/ ApiQuiet /\ JoinRoom(Fingerprints, OneSocket, OneRoom)
    \/ ApiQuiet /\ Offer(OneSocket, OneRoom, MainPeers)
    \/ ApiQuiet /\ OnOpen
    \/ ApiQuiet /\ OnState
    \/ ApiQuiet /\ OnIceState
    \/ ApiQuiet /\ MRespond

SpecTransport == Init /\ [][NextTransport]_vars

(***************************************************************************)
(*                               Properties                                *)
(***************************************************************************)

(* C1: a join with role=dj by a registered client other than the room's DJ is
   answered "room already has a DJ" and leaves the room's DJ as it was, whether
   or not listeners have joined the room. *)
C1_DjConflict ==
    [][LET r == last'.room
           c == last'.client
       IN (Idle /\ last'.op = "join" /\ last'.role = "dj"
           /\ c \in DOMAIN clients /\ r \in DOMAIN rooms /\ rooms[r].dj_client # c)
          => /\ last'.error = "room already has a DJ"
             /\ r \in DOMAIN rooms'
             /\ rooms'[r].dj_client = rooms[r].dj_client]_vars

(* a DJ join by another client was refused in a room that has a listener *)
C1_Witness ==
    /\ last.op = "join" /\ last.role = "dj"
    /\ last.error = "room already has a DJ"
    /\ last.room \in DOMAIN rooms
    /\ rooms[last.room].dj_client # last.client
    /\ rooms[last.room].listeners # {}

(* C2: a join with role=dj by the client that is the room's DJ succeeds and leaves
   the room's DJ and its listeners as they were; holding at every such step, it
   holds for any number of them in a row. *)
C2_DjRejoin ==
    [][LET r == last'.room
           c == last'.client
       IN (Idle /\ last'.op = "join" /\ last'.role = "dj"
           /\ c \in DOMAIN clients /\ r \in DOMAIN rooms /\ rooms[r].dj_client = c)
          => /\ last'.error = "ok"
             /\ r \in DOMAIN rooms'
             /\ rooms'[r].dj_client = c
             /\ rooms'[r].listeners = rooms[r].listeners]_vars

(* the DJ of a room with a listener has rejoined it as DJ *)
C2_Witness ==
    /\ last.op = "join" /\ last.role = "dj" /\ last.error = "ok"
    /\ last.room \in DOMAIN rooms
    /\ rooms[last.room].dj_client = last.client
    /\ rooms[last.room].listeners # {}

(* C3: in every reachable state each client (api.py) and each fingerprint (main.py)
   is the DJ of at most one existing room. *)
C3_OnePublisher ==
    /\ \A c \in ClientIds : Cardinality(OwnedRooms(c)) <= 1
    /\ \A f \in Fingerprints :
          Cardinality({r \in DOMAIN srv_rooms : srv_rooms[r].dj_fingerprint = f}) <= 1

(* C4: a create request with a name by an identity that is the DJ of a room succeeds,
   returns that room with the reused flag, and leaves the set of rooms unchanged. *)
C4_CreateIdempotent ==
    [][/\ (Idle /\ last'.op = "create" /\ last'.client \in DOMAIN clients
           /\ OwnedRooms(last'.client) # {})
          => /\ last'.error = "ok"
             /\ last'.room \in OwnedRooms(last'.client)
             /\ last'.existing
             /\ rooms' = rooms
       /\ LET owned == {r \in DOMAIN srv_rooms : srv_rooms[r].dj_fingerprint = mlast'.fp}
          IN (MIdle /\ mlast'.op = "create" /\ mlast'.error # "Room name required"
              /\ owned # {})
             => /\ mlast'.error = "ok"
                /\ mlast'.room \in owned
                /\ srv_rooms' = srv_rooms]_vars

C6_IdentifyStable ==
    [][/\ (Idle /\ last'.op = "identify" /\ last'.given \in DOMAIN clients)
          => /\ last'.client = last'.given
             /\ last'.name = clients[last'.given].name
       /\ \A x \in DOMAIN clients :
             x \in DOMAIN clients' /\ clients'[x].name = clients[x].name]_vars

(* C7 as stated: dj_online of a room is false once the staleness window has passed
   without a heartbeat with role=dj for it, and true less than the staleness window
   after such a heartbeat. *)
C7_StaleByHeartbeat ==
    \A r \in DOMAIN rooms :
        LET online == get_rooms_data(rooms, clients, now)[r].dj_online
            since == IF hist[r].hb # 0 THEN hist[r].hb ELSE hist[r].created
        IN /\ (now - since >= STALE_WINDOW) => ~online
           /\ (hist[r].hb # 0 /\ now - hist[r].hb < STALE_WINDOW) => online

(* C7: dj_online of a room is false once the staleness window has passed without a
   refresh of last_seen_dj (creation, join as DJ, heartbeat with role=dj, online
   report) and after an offline report not followed by a refresh; it is true less
   than the staleness window after a heartbeat with role=dj unless such an offline
   report came since. *)
C7_StaleByRefresh ==
    \A r \in DOMAIN rooms :
        LET online == get_rooms_data(rooms, clients, now)[r].dj_online
        IN /\ (hist[r].offline \/ now - hist[r].refresh >= STALE_WINDOW) => ~online
           /\ (hist[r].hb # 0 /\ now - hist[r].hb < STALE_WINDOW /\ ~hist[r].offline)
              => online

(* a room that had a heartbeat with role=dj has gone stale *)
C7_Witness ==
    \E r \in DOMAIN rooms :
        /\ hist[r].hb # 0
        /\ ~hist[r].offline
        /\ now - hist[r].refresh >= STALE_WINDOW
        /\ ~get_rooms_data(rooms, clients, now)[r].dj_online

(* C8: a heartbeat with role=dj for a room from a client that is not the room's DJ
   leaves the room's last_seen_dj unchanged. *)
C8_ForeignHeartbeatIgnored ==
    [][LET r == last'.room
       IN (Idle /\ last'.op = "presence" /\ last'.role = "dj"
           /\ r \in DOMAIN rooms /\ rooms[r].dj_client # last'.client)
          => /\ r \in DOMAIN rooms'
             /\ rooms'[r].last_seen_dj = rooms[r].last_seen_dj]_vars

(* C9: a room is removed only by a close request of its DJ; a close request by another
   identity is answered with the forbidden error and leaves the rooms unchanged; a
   close request for a room id that does not exist is answered not found.  (A step
   that answers a delete request of main.py is the request's own step when it leaves
   the suspended handlers alone or adds one.) *)
C9_CloseOnlyByPublisher ==
    [][/\ \A r \in (DOMAIN rooms) \ DOMAIN rooms' :
             /\ last'.op = "close" /\ last'.error = "ok" /\ last'.room = r
             /\ last'.client = rooms[r].dj_client
       /\ (Idle /\ last'.op = "close" /\ last'.room \notin DOMAIN rooms)
          => last'.error = "unknown room"
       /\ (Idle /\ last'.op = "close" /\ last'.room \in DOMAIN rooms
           /\ last'.client \in DOMAIN clients
           /\ rooms[last'.room].dj_client # last'.client)
          => last'.error = "only DJ can close room" /\ rooms' = rooms
       /\ \A r \in (DOMAIN srv_rooms) \ DOMAIN srv_rooms' :
             /\ mlast'.op = "delete" /\ mlast'.error = "ok" /\ mlast'.room = r
             /\ mlast'.fp = srv_rooms[r].dj_fingerprint
       /\ (MIdle /\ mlast'.op = "delete"
           /\ (tasks' = tasks \/ Len(tasks') = Len(tasks) + 1)
           /\ mlast'.room \notin DOMAIN srv_rooms)
          => mlast'.error = "Room not found"
       /\ (MIdle /\ mlast'.op = "delete"
           /\ (tasks' = tasks \/ Len(tasks') = Len(tasks) + 1)
           /\ mlast'.room \in DOMAIN srv_rooms
           /\ srv_rooms[mlast'.room].dj_fingerprint # mlast'.fp)
          => mlast'.error = "Only DJ can delete room" /\ srv_rooms' = srv_rooms]_vars

(* C10: when a delete request succeeds, every member of the room that had an open
   data channel when the request was made has been sent room_closed. *)
C10_RoomClosedSent ==
    (mlast.op = "delete" /\ mlast.error = "ok") => mlast.attached \subseteq mlast.sent


(* C11: every rejected join carries one of the reasons unknown identity,
   unknown room or DJ conflict, the reason matches the state, and a join that
   meets none of the three conditions succeeds (as stated: main.py also
   answers "Room is full"). *)
C11_ThreeReasons ==
    [][/\ (Idle /\ last'.op = "join")
          => LET c == last'.client
                 r == last'.room
                 conflict == r \in DOMAIN rooms /\ c \in DOMAIN clients
                             /\ last'.role = "dj" /\ rooms[r].dj_client # c
             IN /\ last'.error \in {"ok", "unknown client", "unknown room",
                                     "room already has a DJ"}
                /\ (last'.error = "unknown client") => c \notin DOMAIN clients
                /\ (last'.error = "unknown room") => r \notin DOMAIN rooms
                /\ (last'.error = "room already has a DJ") => conflict
                /\ (c \in DOMAIN clients /\ r \in DOMAIN rooms /\ ~conflict)
                      => last'.error = "ok"
       /\ (MIdle /\ mlast'.op = "join")
          => LET r == mlast'.room
             IN /\ mlast'.error \in {"ok", "Room not found"}
                /\ (mlast'.error = "Room not found") => r \notin DOMAIN srv_rooms
                /\ (r \in DOMAIN srv_rooms) => mlast'.error = "ok"
      ]_vars

(* C11 (amended): as above, with the fourth reason of main.py: "Room is full"
   only when the room exists and already holds max_capacity connected clients;
   a join that meets none of the four conditions succeeds. *)
C11_FourReasons ==
    [][/\ (Idle /\ last'.op = "join")
          => LET c == last'.client
                 r == last'.room
                 conflict == r \in DOMAIN rooms /\ c \in DOMAIN clients
                             /\ last'.role = "dj" /\ rooms[r].dj_client # c
             IN /\ last'.error \in {"ok", "unknown client", "unknown room",
                                     "room already has a DJ"}
                /\ (last'.error = "unknown client") => c \notin DOMAIN clients
                /\ (last'.error = "unknown room") => r \notin DOMAIN rooms
                /\ (last'.error = "room already has a DJ") => conflict
                /\ (c \in DOMAIN clients /\ r \in DOMAIN rooms /\ ~conflict)
                      => last'.error = "ok"
       /\ (MIdle /\ mlast'.op = "join")
          => LET r == mlast'.room
                 full == r \in DOMAIN srv_rooms
                         /\ Len(srv_rooms[r].connected_clients) >= MAX_CAPACITY
             IN /\ mlast'.error \in {"ok", "Room not found", "Room is full"}
                /\ (mlast'.error = "Room not found") => r \notin DOMAIN srv_rooms
                /\ (mlast'.error = "Room is full") => full
                /\ (r \in DOMAIN srv_rooms /\ ~full) => mlast'.error = "ok"
      ]_vars

(* a join has been rejected because the room is full *)
C11_Witness ==
    /\ mlast.op = "join" /\ mlast.error = "Room is full"
    /\ Len(srv_rooms[mlast.room].connected_clients) = MAX_CAPACITY


(* C12: the candidates posted for a client are all delivered to its peer
   connection in the order sent, also when the connection is attached (by the
   client's offer) between two of them: a candidate posted before the offer is
   kept and handed over at the offer.  Stated for a client that has made one
   offer, whose connection is attached. *)
C12_RelayInOrder ==
    \A c \in DOMAIN srv_peers :
        Cardinality({p \in 1..Len(pcs) : pcs[p].client = c}) = 1
            => pcs[srv_peers[c]].ice = IceSent(c)


(* the frames that the calls of recv() on track t have returned, in order *)
Emitted(t) == SelectSeq(pulls[t], LAMBDA f : f.kind # "raised")

(* C13: for one track, the first frame emitted has timestamp 0 and each later
   one has the timestamp of the frame emitted before it plus that frame's sample
   count, for real and silence frames alike, whatever pause and resume calls
   come in between. *)
C13_TimestampsContiguous ==
    \A t \in 1..Len(tracks) :
        LET e == Emitted(t)
        IN /\ \A i \in 1..Len(e) :
                  e[i].pts = IF i = 1 THEN 0 ELSE e[i - 1].pts + e[i - 1].samples
           /\ \A i \in 1..(Len(e) - 1) : e[i].pts < e[i + 1].pts

(* real frames, a silence frame of a pause and a real frame after the resume
   have been emitted *)
C13_Witness ==
    \E t \in 1..Len(tracks) :
        LET e == Emitted(t)
        IN \E i \in 1..(Len(e) - 2) :
              /\ e[i].kind = "real" /\ e[i + 1].cause = "paused"
              /\ e[i + 2].kind = "real"
              /\ e[i + 2].pts = e[i].pts + e[i].samples + SILENCE_SAMPLES


(* C14: every frame that a room's shared track produces is delivered to every
   subscriber whose sender holds the track when it is produced: no frame goes
   to the sender of one client while the sender of another client holds the
   track too. *)
C14_SameFrames ==
    \A t \in 1..Len(pulls) : \A i \in 1..Len(pulls[t]) :
        pulls[t][i].kind # "raised"
            => \A q \in pulls[t][i].attached :
                   pcs[q].client = pcs[pulls[t][i].by].client


RECURSIVE SumSamples(_)
SumSamples(frames) ==
    IF frames = <<>> THEN 0 ELSE frames[1].samples + SumSamples(Tail(frames))

(* the real frames that track t has returned, in order *)
RealFrames(t) == SelectSeq(pulls[t], LAMBDA f : f.kind = "real")

(* no packet that yields a frame lies between the packets of two real frames
   returned one after the other *)
NoFrameSkipped(t) ==
    LET e == RealFrames(t)
        packets == Files[tracks[t].filepath].packets
    IN \A i \in 1..(Len(e) - 1) : \A k \in (e[i].src + 1)..(e[i + 1].src - 1) :
           packets[k].frames = <<>>

(* C15: a pull on a paused track returns a silence frame of 960 samples and
   leaves the read position of the file where it was; the real frame after a
   resume comes from the packet after that of the last real frame before the
   pause, and the timestamp has advanced by the samples of all frames returned,
   real and silent. *)
C15_PauseKeepsPosition ==
    [][\A t \in 1..Len(tracks) :
          Len(pulls'[t]) = Len(pulls[t]) + 1
            => LET f == pulls'[t][Len(pulls'[t])]
               IN /\ tracks[t].is_paused
                     => /\ f.kind = "silence" /\ f.samples = SILENCE_SAMPLES
                        /\ tracks'[t].pos = tracks[t].pos
                  /\ NoFrameSkipped(t)'
                  /\ tracks'[t].timestamp = SumSamples(Emitted(t))'
      ]_vars


(* C17: every pull returns exactly one frame and lets no error out: a pull on
   which opening or decoding the file fails returns one silence frame of 960
   samples with the next timestamp. *)
C17_PullNeverRaises ==
    \A t \in 1..Len(pulls) : \A i \in 1..Len(pulls[t]) :
        /\ pulls[t][i].kind \in {"real", "silence"}
        /\ pulls[t][i].cause = "error"
              => /\ pulls[t][i].kind = "silence"
                 /\ pulls[t][i].samples = SILENCE_SAMPLES
                 /\ pulls[t][i].pts = SumSamples(SubSeq(pulls[t], 1, i - 1))


(* the number of "Stream ended" lines that the pulls on track t have logged *)
LogCount(t) == Len(SelectSeq(pulls[t], LAMBDA f : f.logged))

(* C16: a pull on a track whose file has nothing left to read returns a silence
   frame and does not raise; the end of the file has then been logged exactly
   once, however many pulls came before, and is never logged twice; no pull
   changes the playing flag or the current track of a room. *)
C16_EndOfSource ==
    [][\A t \in 1..Len(tracks) :
          Len(pulls'[t]) = Len(pulls[t]) + 1
            => LET f == pulls'[t][Len(pulls'[t])]
               IN /\ LogCount(t)' <= 1
                  /\ srv_rooms' = srv_rooms
                  /\ (Files[tracks[t].filepath].opens /\ NextPacket(tracks[t]) = 0)
                        => /\ f.kind = "silence" /\ f.samples = SILENCE_SAMPLES
                           /\ ~tracks[t].is_paused => LogCount(t)' = 1
      ]_vars


(* C18: a play, pause or resume request for an existing room from a browser
   other than the room's DJ is rejected, and the room (its current track and its
   playing flag among the rest) and every track's paused flag stay as they
   were. *)
C18_OnlyDjControls ==
    [][(/\ MIdle
        /\ mlast'.op \in {"play", "pause", "resume"}
        /\ mlast'.room \in DOMAIN srv_rooms
        /\ srv_rooms[mlast'.room].dj_fingerprint # mlast'.fp)
           => /\ mlast'.error \in {"Only DJ can control playback", "Unauthorized"}
              /\ srv_rooms' = srv_rooms
              /\ tracks' = tracks
      ]_vars

(* a pause request of another browser was rejected while the room plays *)
C18_Witness ==
    /\ mlast.op = "pause" /\ mlast.error = "Unauthorized"
    /\ mlast.room \in DOMAIN srv_rooms
    /\ srv_rooms[mlast.room].dj_fingerprint # mlast.fp
    /\ srv_rooms[mlast.room].is_playing
    /\ srv_rooms[mlast.room].audio_track # NoTrack
    /\ ~tracks[srv_rooms[mlast.room].audio_track].is_paused


(* C19: a create, join or close request whose state change has been applied,
   so that its broadcast has started, returns its success response: the
   broadcast never ends the request in a server error, whatever sockets
   connect, disconnect or fail to receive while it runs. *)
C19_BroadcastNeverFails ==
    last.op \in {"create", "join", "close"} => last.error # "RuntimeError"


(* C20: a send that fails does not keep a broadcast from any other recipient.
   When a broadcast of the room list ends, every socket that was a subscriber
   at its start and still is one has been visited; and a broadcast that ran
   through has left the new room list with every subscriber whose send did not
   fail. *)
C20_FailureIsolated ==
    [][/\ (bcast.active /\ ~bcast'.active)
          => bcast.todo \cap room_update_subscribers = {}
       /\ (Idle /\ last'.op \in {"create", "join", "close"} /\ rooms' # rooms
           /\ ~bcast'.active)
          => \A ws \in room_update_subscribers' :
                 ws_inbox'[ws] = get_rooms_data(rooms', clients', now')
      ]_vars


(* the members of a room whose current peer connection has an open data channel *)
OpenMembers(room_id) ==
    {srv_peers[c] : c \in {srv_rooms[room_id].connected_clients[i].socket_id :
                              i \in 1..Len(srv_rooms[room_id].connected_clients)}
                         \cap {d \in DOMAIN srv_peers : pcs[srv_peers[d]].dc = "open"}}

(* C21: a broadcast to a room is sent on the data channel of every member of
   the room whose peer connection has an open data channel at that time,
   whatever the order of the member's joins, offers and channel-open events. *)
C21_BroadcastReachesOpen ==
    (mlast.event # None /\ mlast.room \in DOMAIN srv_rooms)
        => OpenMembers(mlast.room) \subseteq mlast.sent


(* C22: a step in which a directory WebSocket closes, or in which a peer
   connection is reported failed, closed or disconnected, removes no identity
   and no room and changes no room's publisher: clients and rooms of the HTTP
   API, users, clients and rooms of SilentDiscoServer stay as they were. *)
C22_TransportLossKeepsState ==
    [][/\ (/\ room_update_subscribers' # room_update_subscribers
           /\ room_update_subscribers' \subseteq room_update_subscribers
           /\ last' = last /\ bcast' = bcast)
          => clients' = clients /\ rooms' = rooms
       /\ (/\ DOMAIN srv_peers' # DOMAIN srv_peers
           /\ DOMAIN srv_peers' \subseteq DOMAIN srv_peers
           /\ mlast' = mlast /\ tasks' = tasks)
          => srv_users' = srv_users /\ srv_clients' = srv_clients
             /\ srv_rooms' = srv_rooms
      ]_vars

(* the DJ of a room is connected to it and has lost its peer connection *)
C22_Witness ==
    \E p \in 1..Len(pcs), r \in DOMAIN srv_rooms :
        /\ pcs[p].client \notin DOMAIN srv_peers
        /\ \E i \in 1..Len(srv_rooms[r].connected_clients) :
               /\ srv_rooms[r].connected_clients[i].socket_id = pcs[p].client
               /\ srv_rooms[r].connected_clients[i].role = "dj"


(* the sockets connected to a room as listener *)
Subscribers(rms, room_id) ==
    {rms[room_id].connected_clients[i].socket_id :
        i \in Listeners(rms[room_id].connected_clients)}

(* C23: a socket that joins a room as listener is counted among the room's
   listeners; after it leaves the room, and after its peer connection is
   reported failed, closed or disconnected, it is counted among the listeners
   of that room no more. *)
C23_SubscriberSetFollows ==
    [][/\ (MIdle /\ mlast'.op = "join" /\ mlast'.error = "ok"
              /\ mlast'.role = "listener")
          => mlast'.client \in Subscribers(srv_rooms', mlast'.room)
       /\ (MIdle /\ mlast'.op = "leave" /\ mlast'.room \in DOMAIN srv_rooms')
          => mlast'.client \notin Subscribers(srv_rooms', mlast'.room)
       /\ \A c \in DOMAIN srv_peers \ DOMAIN srv_peers' :
              (mlast' = mlast /\ tasks' = tasks)
              => \A r \in DOMAIN srv_rooms' : c \notin Subscribers(srv_rooms', r)
      ]_vars

(* C24: identify is always answered ok, and with an absent or unknown
   client_id it registers the new identity under an id that was not in the
   registry: the identities registered before are unchanged and the registry has
   exactly one identity more. *)
C24_IdentifyRegistersFresh ==
    [][(Idle /\ last'.op = "identify")
          => /\ last'.error = "ok"
             /\ last'.given \notin DOMAIN clients
                => /\ last'.client \notin DOMAIN clients
                   /\ DOMAIN clients' = DOMAIN clients \cup {last'.client}
                   /\ \A c \in DOMAIN clients : clients'[c] = clients[c]
                   /\ Cardinality(DOMAIN clients') = Cardinality(DOMAIN clients) + 1
      ]_vars

(* C25: a create request of an identity that is the DJ of no room adds a room
   under an id that was not in the room directory, with that identity as DJ and
   no listeners, and leaves the rooms registered before as they were. *)
C25_CreateAddsFresh ==
    [][(Idle /\ last'.op = "create" /\ last'.error = "ok"
             /\ OwnedRooms(last'.client) = {})
          => /\ last'.room \notin DOMAIN rooms
             /\ DOMAIN rooms' = DOMAIN rooms \cup {last'.room}
             /\ rooms'[last'.room].dj_client = last'.client
             /\ rooms'[last'.room].listeners = {}
             /\ \A r \in DOMAIN rooms : rooms'[r] = rooms[r]
      ]_vars

(* C26: a join request whose role is missing, or is neither "dj" nor
   "listener", is answered with an error and changes neither the rooms nor the
   registered identities. *)
C26_BadRoleRejected ==
    [][(Idle /\ last'.op = "join" /\ last'.role \notin {"dj", "listener"})
          => last'.error # "ok" /\ rooms' = rooms /\ clients' = clients
      ]_vars

(* C27: a create, join or close request that is answered "unknown client",
   "unknown room", "room already has a DJ" or "only DJ can close room" leaves
   the rooms and the registered identities exactly as they were. *)
C27_ErrorChangesNothing ==
    [][(/\ Idle
        /\ last'.op \in {"create", "join", "close"}
        /\ last'.error \in {"unknown client", "unknown room",
                            "room already has a DJ", "only DJ can close room"})
          => rooms' = rooms /\ clients' = clients
      ]_vars

(* a close request of an identity that is not the DJ of the room has been
   refused and the room is still there with its DJ *)
C27_Witness ==
    /\ last.op = "close" /\ last.error = "only DJ can close room"
    /\ last.room \in DOMAIN rooms
    /\ rooms[last.room].dj_client \notin {None, last.client}

(* C28: identify with a registered client_id changes nothing but the last_seen
   of that identity: its name, room and role, every other identity and the
   rooms are as before, whatever name the request carries. *)
C28_ReuseTouchesLastSeen ==
    [][(Idle /\ last'.op = "identify" /\ last'.given \in DOMAIN clients)
          => /\ rooms' = rooms
             /\ DOMAIN clients' = DOMAIN clients
             /\ \A c \in DOMAIN clients :
                    IF c = last'.given
                    THEN clients'[c] = [clients[c] EXCEPT !.last_seen = now]
                    ELSE clients'[c] = clients[c]
      ]_vars

(* an identity that is in a room has come back with its id at a later time,
   and another identity is registered *)
C28_Witness ==
    /\ last.op = "identify" /\ last.given \in DOMAIN clients
    /\ last.client = last.given
    /\ clients[last.given].room_id # None
    /\ clients[last.given].last_seen = now /\ now > 1
    /\ DOMAIN clients # {last.given}

(* what a successful play request does apart from the playing state: the room's
   current audio is a library track, its audio track is a new producer over
   that track's file, and the producer it had before is stopped *)
Loaded ==
    LET r == mlast'.room
        old == srv_rooms[r].audio_track
        new == srv_rooms'[r].audio_track
    IN /\ srv_rooms'[r].current_audio \in DOMAIN GlobalLibrary
       /\ new = Len(tracks') /\ new # old
       /\ tracks'[new].filepath = GlobalLibrary[srv_rooms'[r].current_audio]
       /\ ~tracks'[new].stopped
       /\ old # NoTrack => tracks'[old].stopped

(* C29 as stated: a successful play request loads the track (current audio set,
   previous producer stopped) and leaves the room not playing. *)
C29_LoadLeavesStopped ==
    [][(MIdle /\ mlast'.op = "play" /\ mlast'.error = "ok")
          => Loaded /\ ~srv_rooms'[mlast'.room].is_playing
      ]_vars

(* C29 amended: a successful play request loads the track (current audio set,
   previous producer stopped) and leaves the room playing, its new producer
   not paused. *)
C29_LoadStartsPlaying ==
    [][(MIdle /\ mlast'.op = "play" /\ mlast'.error = "ok")
          => /\ Loaded
             /\ srv_rooms'[mlast'.room].is_playing
             /\ ~tracks'[srv_rooms'[mlast'.room].audio_track].is_paused
      ]_vars

(* a second track has been played in a room that was paused on its first *)
C29_Witness ==
    /\ mlast.op = "play" /\ mlast.error = "ok"
    /\ srv_rooms[mlast.room].audio_track = 2
    /\ tracks[1].stopped /\ tracks[1].is_paused
    /\ srv_rooms[mlast.room].is_playing

(* the request in last has changed the room list or a room's membership *)
Changed ==
    /\ last.op \in {"create", "join", "close"}
    /\ last.error \in {"ok", "RuntimeError"}
    /\ ~last.existing

(* C30: once a create, join or close request that changed the rooms has run its
   broadcast, every directory WebSocket that is subscribed holds the room list
   of the state after the change. *)
C30_SubscribersSeeChange ==
    (Changed /\ ~bcast.active)
        => \A ws \in room_update_subscribers :
               /\ ws \in DOMAIN ws_inbox
               /\ ws_inbox[ws] = get_rooms_data(rooms, clients, now)

(* C31: when no broadcast is running and none was ended by an exception, the
   last room list every subscribed directory WebSocket was sent is the list of
   the current rooms, also when a join was handled while the broadcast of an
   earlier request was suspended. *)
C31_LastListIsCurrent ==
    (~bcast.active /\ last.error # "RuntimeError")
        => \A ws \in room_update_subscribers :
               /\ ws \in DOMAIN ws_inbox
               /\ ws_inbox[ws] = get_rooms_data(rooms, clients, now)

(* C32: every registered identity whose room_id is set records a room that is
   in the room directory. *)
C32_RecordedRoomExists ==
    \A c \in DOMAIN clients :
        clients[c].room_id # None => clients[c].room_id \in DOMAIN rooms

(* the rooms that count the identity among their listeners *)
ListenerOf(c) == {r \in DOMAIN rooms : c \in rooms[r].listeners}

(* C33: every identity is among the listeners of at most one room, and that
   room is the one it records as its room, with role listener. *)
C33_ListenerOfOneRoom ==
    \A c \in ClientIds :
        /\ Cardinality(ListenerOf(c)) <= 1
        /\ \A r \in ListenerOf(c) :
               /\ c \in DOMAIN clients
               /\ clients[c].room_id = r
               /\ clients[c].role = "listener"

(* C34: in every state the is_playing flag of a room is true exactly when the
   room has an audio track and that track is not paused. *)
C34_PlayingIffUnpaused ==
    \A r \in DOMAIN srv_rooms :
        srv_rooms[r].is_playing
            <=> /\ srv_rooms[r].audio_track # NoTrack
                /\ ~tracks[srv_rooms[r].audio_track].is_paused

(* a resume request of another browser was refused while the room is paused
   on a loaded track *)
C34_Witness ==
    /\ mlast.op = "resume" /\ mlast.error = "Unauthorized"
    /\ mlast.room \in DOMAIN srv_rooms
    /\ ~srv_rooms[mlast.room].is_playing
    /\ srv_rooms[mlast.room].audio_track # NoTrack
    /\ tracks[srv_rooms[mlast.room].audio_track].is_paused

(* C35: no room ever has more connected clients than MAX_CAPACITY, whatever
   joins and leaves interleave; a join request that meets a room with
   MAX_CAPACITY connected clients is answered "Room is full" and changes no
   room. *)
C35_CapacityNeverExceeded ==
    [][/\ \A r \in DOMAIN srv_rooms' :
              Len(srv_rooms'[r].connected_clients) <= MAX_CAPACITY
       /\ (/\ MIdle /\ mlast'.op = "join"
           /\ mlast'.room \in DOMAIN srv_rooms
           /\ Len(srv_rooms[mlast'.room].connected_clients) >= MAX_CAPACITY)
          => mlast'.error = "Room is full" /\ srv_rooms' = srv_rooms
      ]_vars

(* a join is refused by a room that is full again while the leave of a socket
   that was in it is still suspended *)
C35_Witness ==
    /\ mlast.op = "join" /\ mlast.error = "Room is full"
    /\ Len(srv_rooms[mlast.room].connected_clients) = MAX_CAPACITY
    /\ \E i \in 1..Len(tasks) : tasks[i].kind = "leave" /\ tasks[i].room = mlast.room
=============================================================================
